---- MODULE Spec2Model ----
(***************************************************************************)
(* Project Sentinel: the multi-stream event correlator                     *)
(* (src/analytics/event_correlation.py) and the stateful detectors         *)
(* (src/detection/*.py), as state machines.                                *)
(*                                                                         *)
(* Time is an integer number of ticks; a millisecond is TicksPerMs ticks,  *)
(* so that the truncation of a timestamp to the millisecond or the second  *)
(* (isoformat(timespec=...)) loses information, as it does in the code.    *)
(* Confidences are kept exact: the correlator's as an integer number of    *)
(* 1/(100 * window) units, the detectors' as integer hundredths.           *)
(***************************************************************************)
EXTENDS Integers, Sequences, FiniteSets, TLC

\* ---------------------------------------------------------------- bounds
TicksPerMs == 2
MaxCorrEvents == 3
MaxDetEvents == 3
max_history == 1

\* ------------------------------------------------------- program constants
window_seconds == 30

Ms == TicksPerMs
Sec == 1000 * Ms
Minute == 60 * Sec

None == "None"
\* None where a number is expected; every number a frame carries is >= 0
NoNumber == 0 - 1

Max2(a, b) == IF a >= b THEN a ELSE b
Min2(a, b) == IF a <= b THEN a ELSE b
Abs(a) == IF a >= 0 THEN a ELSE 0 - a

\* datetime.isoformat(timespec="seconds") / (timespec="milliseconds"):
\* the timestamp with everything below the second / millisecond dropped.
IsoSeconds(t) == t \div Sec
IsoMillis(t) == t \div Ms

\* str.strip() on the strings the model uses.
Strip(s) ==
  CASE s = "PRD_A " -> "PRD_A"
    [] s = " PRD_B" -> "PRD_B"
    [] s = " prd_a" -> "prd_a"
    [] s = " " -> ""
    [] OTHER -> s

\* str.lower() on the stream names the model uses.
Lower(s) ==
  CASE s = "POS_Transactions" -> "pos_transactions"
    [] s = "RFID_data" -> "rfid_data"
    [] s = "Product_recognism" -> "product_recognism"
    [] s = "Queue_monitor" -> "queue_monitor"
    [] OTHER -> s

SeqToSet(s) == {s[i] : i \in 1..Len(s)}

RECURSIVE SelectSeqIdx(_, _)
\* the subsequence of s at the indices in keep, in order
SelectSeqIdx(s, keep) ==
  IF s = <<>> THEN <<>>
  ELSE LET n == Len(s)
           front == SelectSeqIdx(SubSeq(s, 1, n - 1), keep)
       IN IF n \in keep THEN Append(front, s[n]) ELSE front

\* deque(maxlen=n).extend(items): append one by one, dropping from the left
\* a bounded queue that drops the newest entries on overflow
ExtendKeepOldest(dq, items, n) ==
  LET all == dq \o items
  IN IF Len(all) <= n THEN all ELSE SubSeq(all, 1, n)

Extend(dq, items, n) ==
  LET all == dq \o items
  IN IF Len(all) <= n THEN all ELSE SubSeq(all, Len(all) - n + 1, Len(all))

(***************************************************************************)
(* EventCorrelator                                                         *)
(***************************************************************************)
VARIABLES
  events,             \* self._events: the window, a deque of records
  correlated,         \* self._correlated: deque(maxlen=max_history)
  suspicious,         \* self._suspicious: deque(maxlen=max_history)
  seen_correlations,  \* self._seen_correlations
  seen_suspicious,    \* self._seen_suspicious
  corrCalls,          \* number of register_event calls made
  lastRegistered,     \* the record built by the last register_event call
  lastEvals,          \* one entry per POS event assessed by the last call
  corrLog,            \* every correlated_checkout ever returned, in order
  suspLog             \* every suspicious_checkout ever returned, in order

corrVars == <<events, correlated, suspicious, seen_correlations, seen_suspicious,
              corrCalls, lastRegistered, lastEvals, corrLog, suspLog>>

window == Max2(1, window_seconds) * Sec

\* _normalise_stream_name
NormaliseStreamName(stream) ==
  IF stream = None \/ stream = "" THEN "unknown" ELSE Lower(Strip(stream))

\* _extract_sku: the first candidate that is a non-blank string, stripped.
\* A payload carries data.sku and data.predicted_product (None when absent).
ExtractSku(payload) ==
  IF payload.sku # None /\ Strip(payload.sku) # "" THEN Strip(payload.sku)
  ELSE IF payload.predicted_product # None /\ Strip(payload.predicted_product) # ""
       THEN Strip(payload.predicted_product)
       ELSE None

\* _prune: pop from the left while the head is older than the window
RECURSIVE Prune(_, _)
Prune(evs, current_time) ==
  IF evs # <<>> /\ evs[1].timestamp < current_time - window
  THEN Prune(Tail(evs), current_time)
  ELSE evs

\* _collect_recent_events
CollectRecentEvents(evs, station_id) ==
  IF evs = <<>> THEN <<>>
  ELSE LET window_start == evs[Len(evs)].timestamp - window
       IN SelectSeqIdx(evs, {i \in 1..Len(evs) :
                               /\ evs[i].station_id = station_id
                               /\ evs[i].timestamp >= window_start})

rfid_streams == {"rfid", "rfid_data", "rfid_readings"}
pos_streams == {"pos", "pos_transactions"}
vision_streams == {"vision", "product_recognition", "product_recognism"}

\* _group_events
GroupEvents(evs) ==
  [rfid |-> SelectSeqIdx(evs, {i \in 1..Len(evs) : evs[i].stream \in rfid_streams}),
   pos |-> SelectSeqIdx(evs, {i \in 1..Len(evs) : evs[i].stream \in pos_streams}),
   vision |-> SelectSeqIdx(evs, {i \in 1..Len(evs) : evs[i].stream \in vision_streams})]

\* an alignment taken from the match farthest from the pivot
TimeAlignmentFarthest(pivot, others) ==
  IF others = <<>> THEN 0
  ELSE LET diffs == {Abs(pivot - others[i]) : i \in 1..Len(others)}
           max_diff == CHOOSE d \in diffs : \A e \in diffs : d >= e
       IN Max2(0, window - max_diff)

\* _time_alignment, times the window: max(0, window - min_diff), 0 with no match
TimeAlignment(pivot, others) ==
  IF others = <<>> THEN 0
  ELSE LET diffs == {Abs(pivot - others[i]) : i \in 1..Len(others)}
           min_diff == CHOOSE d \in diffs : \A e \in diffs : d <= e
       IN Max2(0, window - min_diff)

\* confidences are integers in units of 1/(100 * window)
ConfUnit == 100 * window

ConfidenceScoreUncapped(has_rfid, has_vision, alignment) ==
  35 * window + (IF has_rfid THEN 35 * window ELSE 0)
              + (IF has_vision THEN 22 * window ELSE 0)
              + 10 * alignment

\* _confidence_score
ConfidenceScore(has_rfid, has_vision, alignment) ==
  LET score == 35 * window + (IF has_rfid THEN 35 * window ELSE 0)
                           + (IF has_vision THEN 22 * window ELSE 0)
                           + Min2(8 * window, 10 * alignment)
  IN Min2(score, ConfUnit)

DedupKey(station_id, sku, pos_event) ==
  <<station_id, sku, IsoSeconds(pos_event.timestamp)>>

BuildCorrelationNoDedup(seen, station_id, sku, pos_event, rfid_matches, vision_matches, confidence) ==
  IF 10 * confidence < 6 * ConfUnit
  THEN [seen |-> seen, out |-> <<>>]
  ELSE [seen |-> seen \cup {DedupKey(station_id, sku, pos_event)},
        out |-> <<[event_type |-> "correlated_checkout",
                   station_id |-> station_id,
                   timestamp |-> pos_event.timestamp,
                   sku |-> sku,
                   rfid_matches |-> Len(rfid_matches),
                   vision_matches |-> Len(vision_matches)]>>]

\* _build_correlation: the new _seen_correlations and the returned list
BuildCorrelation(seen, station_id, sku, pos_event, rfid_matches, vision_matches, confidence) ==
  LET key == DedupKey(station_id, sku, pos_event)
  IN IF 10 * confidence < 6 * ConfUnit \/ key \in seen
     THEN [seen |-> seen, out |-> <<>>]
     ELSE [seen |-> seen \cup {key},
           out |-> <<[event_type |-> "correlated_checkout",
                      station_id |-> station_id,
                      timestamp |-> pos_event.timestamp,
                      sku |-> sku,
                      rfid_matches |-> Len(rfid_matches),
                      vision_matches |-> Len(vision_matches)]>>]

\* the SKUs _extract_sku resolves in a list of events
ResolvedSkus(evs) ==
  {ExtractSku(evs[i].payload) : i \in 1..Len(evs)} \ {None}

\* the reasons list _build_suspicious accumulates (lines 211-237)
SuspicionReasons(sku, rfid_matches, vision_events, vision_matches, confidence) ==
  LET vision_predictions == ResolvedSkus(vision_events)
      rfid_skus == ResolvedSkus(rfid_matches)
  IN (IF rfid_matches = <<>> THEN <<"Missing RFID">> ELSE <<>>)
     \o (IF vision_matches = <<>> THEN <<"Missing Vision">> ELSE <<>>)
     \o (IF vision_matches # <<>> /\ sku \notin vision_predictions
         THEN <<"Vision mismatch">> ELSE <<>>)
     \o (IF rfid_matches # <<>> /\ sku \notin rfid_skus
         THEN <<"RFID mismatch">> ELSE <<>>)
     \o (IF 10 * confidence < 5 * ConfUnit
         THEN <<"Low confidence correlation">> ELSE <<>>)

\* _build_suspicious: the new _seen_suspicious and the returned list
BuildSuspicious(seen, station_id, sku, pos_event, rfid_matches, vision_events, vision_matches, confidence) ==
  LET reasons == SuspicionReasons(sku, rfid_matches, vision_events, vision_matches, confidence)
      key == DedupKey(station_id, sku, pos_event)
  IN IF reasons = <<>> \/ key \in seen
     THEN [seen |-> seen, out |-> <<>>]
     ELSE [seen |-> seen \cup {key},
           out |-> <<[event_type |-> "suspicious_checkout",
                      station_id |-> station_id,
                      timestamp |-> pos_event.timestamp,
                      sku |-> sku,
                      reasons |-> reasons]>>]

\* _assess_pos_event on the accumulated state acc; a POS event without a
\* resolvable SKU is skipped.  Each assessment is logged in acc.evals.
AssessPosEvent(acc, station_id, pos_event, rfid_events, vision_events) ==
  LET sku == ExtractSku(pos_event.payload)
      rfid_matches == SelectSeqIdx(rfid_events,
                        {i \in 1..Len(rfid_events) : ExtractSku(rfid_events[i].payload) = sku})
      vision_matches == SelectSeqIdx(vision_events,
                        {i \in 1..Len(vision_events) : ExtractSku(vision_events[i].payload) = sku})
      matches == rfid_matches \o vision_matches
      alignment == TimeAlignment(pos_event.timestamp,
                                 [i \in 1..Len(matches) |-> matches[i].timestamp])
      confidence == ConfidenceScore(rfid_matches # <<>>, vision_matches # <<>>, alignment)
      corr == BuildCorrelation(acc.seen_c, station_id, sku, pos_event,
                               rfid_matches, vision_matches, confidence)
      susp == BuildSuspicious(acc.seen_s, station_id, sku, pos_event,
                              rfid_matches, vision_events, vision_matches, confidence)
  IN IF sku = None THEN acc
     ELSE [seen_c |-> corr.seen,
           seen_s |-> susp.seen,
           new_correlated |-> acc.new_correlated \o corr.out,
           new_suspicious |-> acc.new_suspicious \o susp.out,
           evals |-> Append(acc.evals,
                      [key |-> DedupKey(station_id, sku, pos_event),
                       sku |-> sku,
                       pos_timestamp |-> pos_event.timestamp,
                       has_rfid |-> rfid_matches # <<>>,
                       has_vision |-> vision_matches # <<>>,
                       vision_skus |-> ResolvedSkus(vision_events),
                       rfid_match_skus |-> ResolvedSkus(rfid_matches),
                       match_times |-> {matches[i].timestamp : i \in 1..Len(matches)},
                       alignment |-> alignment,
                       confidence |-> confidence,
                       correlation |-> corr.out,
                       suspicious |-> susp.out,
                       corr_before |-> Len(acc.new_correlated),
                       susp_before |-> Len(acc.new_suspicious)])]

RECURSIVE AssessAll(_, _, _, _, _)
\* the loop of _evaluate_station over groups["pos"]
AssessAll(acc, station_id, pos_list, rfid_events, vision_events) ==
  IF pos_list = <<>> THEN acc
  ELSE AssessAll(AssessPosEvent(acc, station_id, pos_list[1], rfid_events, vision_events),
                 station_id, Tail(pos_list), rfid_events, vision_events)

\* _evaluate_station
EvaluateStation(evs, seen_c, seen_s, station_id) ==
  LET recent_events == CollectRecentEvents(evs, station_id)
      groups == GroupEvents(recent_events)
      acc0 == [seen_c |-> seen_c, seen_s |-> seen_s,
               new_correlated |-> <<>>, new_suspicious |-> <<>>, evals |-> <<>>]
  IN AssessAll(acc0, station_id, groups.pos, groups.rfid, groups.vision)

\* the inputs of register_event the model draws: every stream at the first
\* station, at four instants (two in the same second, one 25 s and one 40 s
\* later), a POS frame without a SKU, and two frames of a second station
CorrTimes == {0, 500 * Ms, 25 * Sec, 40 * Sec}
CorrPayloads ==
  { [stream |-> "POS_Transactions", sku |-> "PRD_A", predicted_product |-> None],
    [stream |-> "RFID_data", sku |-> "PRD_A ", predicted_product |-> None],
    [stream |-> "product_recognition", sku |-> None, predicted_product |-> "PRD_A"],
    [stream |-> "Product_recognism", sku |-> None, predicted_product |-> " PRD_B"] }
CorrInputs ==
  {[station_id |-> "SCC1", timestamp |-> t, stream |-> p.stream,
    payload |-> [sku |-> p.sku, predicted_product |-> p.predicted_product]] :
      t \in CorrTimes, p \in CorrPayloads}
  \cup {[station_id |-> "SCC1", timestamp |-> 0, stream |-> "pos",
         payload |-> [sku |-> " ", predicted_product |-> None]]}
  \cup {[station_id |-> "SCC2", timestamp |-> 0, stream |-> st,
         payload |-> [sku |-> "PRD_A", predicted_product |-> None]] :
           st \in {"pos_transactions", "rfid_readings"}}

\* register_event(stream, event), the event carrying a parseable timestamp
RegisterEvent(stream, station_id, timestamp, payload) ==
  LET record == [stream |-> NormaliseStreamName(stream),
                 station_id |-> station_id,
                 timestamp |-> timestamp,
                 payload |-> payload]
      pruned == Prune(Append(events, record), timestamp)
      res == EvaluateStation(pruned, seen_correlations, seen_suspicious, station_id)
  IN /\ corrCalls < MaxCorrEvents
     /\ corrCalls' = corrCalls + 1
     /\ events' = pruned
     /\ seen_correlations' = res.seen_c
     /\ seen_suspicious' = res.seen_s
     /\ correlated' = Extend(correlated, res.new_correlated, max_history)
     /\ suspicious' = Extend(suspicious, res.new_suspicious, max_history)
     /\ lastRegistered' = record
     /\ lastEvals' = res.evals
     /\ corrLog' = corrLog \o res.new_correlated
     /\ suspLog' = suspLog \o res.new_suspicious

Register ==
  \E e \in CorrInputs : RegisterEvent(e.stream, e.station_id, e.timestamp, e.payload)

CorrInit ==
  /\ events = <<>>
  /\ correlated = <<>>
  /\ suspicious = <<>>
  /\ seen_correlations = {}
  /\ seen_suspicious = {}
  /\ corrCalls = 0
  /\ lastRegistered = None
  /\ lastEvals = <<>>
  /\ corrLog = <<>>
  /\ suspLog = <<>>

(***************************************************************************)
(* The detectors (src/detection).  A SentinelEvent is a record             *)
(*   [dataset, timestamp, station_id, status, data]                        *)
(* where status is payload["status"] and data is payload["data"], a record *)
(* of the fields the detectors read, an absent field being None.  When     *)
(* payload["data"] is no map, data_shape tells what it is: "absent" (no    *)
(* "data" key), "null", or "other" (a non-empty list or string); data is   *)
(* then the empty map NoData.                                              *)
(***************************************************************************)
VARIABLES
  latest_predictions,    \* barcode_switching._latest_predictions
  recent_pos_by_sku,     \* scanner_avoidance._recent_pos_by_sku
  recent_rfid_by_epc,    \* scanner_avoidance._recent_rfid_by_epc
  alert_cooldown,        \* scanner_avoidance._alert_cooldown
  flagged_transactions,  \* weight_discrepancy._flagged_transactions
  health_state,          \* system_health._health_state
  recent_waits,          \* queue_health._recent_waits
  recent_queues,         \* queue_health._recent_queues
  last_alert_queue,      \* queue_health._last_alert_queue
  last_alert_wait,       \* queue_health._last_alert_wait
  expected_cache,        \* inventory_discrepancy._expected_cache: <<>> is None, <<d>> the dict d
  inv_last_alert,        \* inventory_discrepancy._last_alert
  detCalls,              \* number of process_event calls made
  sinceReset,            \* the events processed since the last reset_all
  lastEvent,             \* the event of the last process_event call
  lastAlerts,            \* the alerts the last process_event call returned
  alertLog,              \* every alert returned since the last reset_all
  posLog,                \* every POS event processed since the last reset_all
  lastRaised             \* the detector that raised in the last call, or None

detVars == <<latest_predictions, recent_pos_by_sku, recent_rfid_by_epc, alert_cooldown,
             flagged_transactions, health_state, recent_waits, recent_queues,
             last_alert_queue, last_alert_wait, expected_cache, inv_last_alert, detCalls, lastEvent, lastAlerts, alertLog, posLog,
             lastRaised, sinceReset>>

\* dict helpers: a dict is a function whose domain is its key set
EmptyDict == <<>>
DictSet(d, k, v) == [x \in DOMAIN d \cup {k} |-> IF x = k THEN v ELSE d[x]]
DictDrop(d, ks) == [x \in DOMAIN d \ ks |-> d[x]]
DictHas(d, k) == k \in DOMAIN d

\* str.upper() on the strings the model uses
Upper(s) ==
  CASE s = "prd_a" -> "PRD_A"
    [] s = "exit_gate" -> "EXIT_GATE"
    [] OTHER -> s

NoData ==
  [sku |-> None, predicted_product |-> None, accuracy |-> NoNumber,
   epc |-> None, location |-> None, weight_g |-> NoNumber,
   status |-> None, error_code |-> None,
   customer_count |-> NoNumber, average_dwell_time |-> NoNumber,
   quantities |-> <<>>]

\* a SentinelEvent with payload {"status": "Active", "data": data}
Event(dataset, station_id, timestamp, data) ==
  [dataset |-> dataset, station_id |-> station_id, timestamp |-> timestamp,
   status |-> "Active", data |-> data, data_shape |-> "map"]

\* a SentinelEvent whose payload["data"] is no map
MalformedEvent(dataset, station_id, timestamp, status, data_shape) ==
  [dataset |-> dataset, station_id |-> station_id, timestamp |-> timestamp,
   status |-> status, data |-> NoData, data_shape |-> data_shape]

\* lastEvent before the first call and after a reset
NoEvent == Event(None, None, 0, NoData)

POS_DATASETS == {"POS_Transactions", "pos_transactions"}
VISION_DATASETS == {"Product_recognism", "product_recognition"}
RFID_DATASETS == {"RFID_data", "rfid_readings"}

\* Python truthiness of an optional string
Truthy(s) == s # None /\ s # ""

\* ------------------------------------------------------ barcode_switching
VISION_CONFIDENCE_THRESHOLD == 65   \* 0.65, in hundredths
PREDICTION_TTL == 20 * Sec

\* _items_match
ItemsMatch(predicted_sku, scanned_sku) ==
  Upper(Strip(predicted_sku)) = Upper(Strip(scanned_sku))

ExpirePredictionsAtTTL(preds, reference_time) ==
  DictDrop(preds, {st \in DOMAIN preds : reference_time - preds[st].timestamp >= PREDICTION_TTL})

\* _expire_predictions
ExpirePredictions(preds, reference_time) ==
  DictDrop(preds, {st \in DOMAIN preds : reference_time - preds[st].timestamp > PREDICTION_TTL})

BarcodeAlert(event, vision_prediction) ==
  [type |-> "barcode_switching",
   station_id |-> event.station_id,
   timestamp |-> IsoMillis(event.timestamp),
   confidence |-> <<Min2(99, vision_prediction.accuracy), 100>>,
   evidence |-> [predicted_product |-> vision_prediction.sku,
                 predicted_accuracy |-> vision_prediction.accuracy,
                 scanned_sku |-> event.data.sku],
   \* not in the code's alert: which caching, and its timestamp
   cached_at |-> vision_prediction.cached_at,
   predicted_at |-> vision_prediction.timestamp]

DetectBarcodeSwitchingKeepOnMismatch(preds, event, call) ==
  LET station_id == event.station_id
      now == event.timestamp
      live == ExpirePredictions(preds, now)
  IN IF ~Truthy(station_id) THEN [preds |-> preds, alerts |-> <<>>]
     ELSE IF event.dataset \in VISION_DATASETS
     THEN IF event.data.predicted_product # None /\ event.data.accuracy # NoNumber
             /\ event.data.accuracy >= VISION_CONFIDENCE_THRESHOLD
          THEN [preds |-> DictSet(preds, station_id,
                            [sku |-> event.data.predicted_product,
                             accuracy |-> event.data.accuracy,
                             timestamp |-> now, cached_at |-> call]),
                alerts |-> <<>>]
          ELSE [preds |-> preds, alerts |-> <<>>]
     ELSE IF event.dataset \notin POS_DATASETS \/ event.data.sku = None
             \/ ~DictHas(live, station_id)
     THEN [preds |-> live, alerts |-> <<>>]
     ELSE IF ItemsMatch(live[station_id].sku, event.data.sku)
     THEN [preds |-> DictDrop(live, {station_id}), alerts |-> <<>>]
     ELSE [preds |-> live, alerts |-> <<BarcodeAlert(event, live[station_id])>>]

\* detect_barcode_switching: the new _latest_predictions and the alerts.
\* call numbers the call; a cached prediction remembers the call that cached
\* it (cached_at), which the code does not store and nothing here reads.
DetectBarcodeSwitching(preds, event, call) ==
  LET station_id == event.station_id
      now == event.timestamp
      live == ExpirePredictions(preds, now)
  IN IF ~Truthy(station_id) THEN [preds |-> preds, alerts |-> <<>>]
     ELSE IF event.dataset \in VISION_DATASETS
     THEN IF event.data.predicted_product # None /\ event.data.accuracy # NoNumber
             /\ event.data.accuracy >= VISION_CONFIDENCE_THRESHOLD
          THEN [preds |-> DictSet(preds, station_id,
                            [sku |-> event.data.predicted_product,
                             accuracy |-> event.data.accuracy,
                             timestamp |-> now, cached_at |-> call]),
                alerts |-> <<>>]
          ELSE [preds |-> preds, alerts |-> <<>>]
     ELSE IF event.dataset \notin POS_DATASETS \/ event.data.sku = None
             \/ ~DictHas(live, station_id)
     THEN [preds |-> live, alerts |-> <<>>]
     ELSE IF ItemsMatch(live[station_id].sku, event.data.sku)
     THEN [preds |-> DictDrop(live, {station_id}), alerts |-> <<>>]
     ELSE [preds |-> DictDrop(live, {station_id}),
           alerts |-> <<BarcodeAlert(event, live[station_id])>>]

\* ------------------------------------------------------ scanner_avoidance
SUSPICIOUS_LOCATIONS ==
  {"EXIT_GATE", "EXIT_LANE", "CUSTOMER_EXIT", "OUT_OF_STORE", "BAGGING_AREA_BREACH", "UNKNOWN"}
RECENT_SCAN_WINDOW == 25 * Sec
RFID_TTL == 60 * Sec
ALERT_COOLDOWN == 30 * Sec

\* the three dicts of the scanner-avoidance detector
ScannerState(pos, rfid, cooldown) == [pos |-> pos, rfid |-> rfid, cooldown |-> cooldown]

\* _expire_old_records
ExpireOldRecords(st, reference_time) ==
  ScannerState(
    DictDrop(st.pos, {k \in DOMAIN st.pos : reference_time - st.pos[k] > RECENT_SCAN_WINDOW}),
    DictDrop(st.rfid, {k \in DOMAIN st.rfid : reference_time - st.rfid[k].timestamp > RFID_TTL}),
    DictDrop(st.cooldown, {k \in DOMAIN st.cooldown : reference_time - st.cooldown[k] > ALERT_COOLDOWN}))

\* _should_emit_alert
ShouldEmitAlert(cooldown, epc, reference_time) ==
  IF ~DictHas(cooldown, epc) THEN TRUE
  ELSE reference_time - cooldown[epc] > ALERT_COOLDOWN

\* line 84: last_scan_time and now - last_scan_time <= RECENT_SCAN_WINDOW
RecentScanSuppresses(last_scan_time, now) ==
  last_scan_time # NoNumber /\ now - last_scan_time <= RECENT_SCAN_WINDOW

\* detect_scanner_avoidance: the new dicts and the alerts
DetectScannerAvoidance(st0, event) ==
  LET station_id == IF Truthy(event.station_id) THEN event.station_id ELSE "unknown"
      now == event.timestamp
      st == ExpireOldRecords(st0, now)
      d == event.data
      obs_sku == d.sku
      obs_location == Upper(d.location)
      st_obs == ScannerState(st.pos,
                             DictSet(st.rfid, d.epc,
                                     [sku |-> obs_sku, location |-> obs_location,
                                      timestamp |-> now]),
                             st.cooldown)
      last_scan_time == IF Truthy(obs_sku) /\ DictHas(st.pos, obs_sku)
                        THEN st.pos[obs_sku] ELSE NoNumber
      confidence == IF obs_location \in {"CUSTOMER_EXIT", "OUT_OF_STORE"} THEN 90 ELSE 75
  IN IF event.dataset \in POS_DATASETS
     THEN [st |-> IF d.sku # None
                  THEN ScannerState(DictSet(st.pos, d.sku, now), st.rfid, st.cooldown)
                  ELSE st,
           alerts |-> <<>>]
     ELSE IF event.dataset \notin RFID_DATASETS \/ d.epc = None \/ d.location = None
     THEN [st |-> st, alerts |-> <<>>]
     ELSE IF obs_location \notin SUSPICIOUS_LOCATIONS
             \/ RecentScanSuppresses(last_scan_time, now)
             \/ ~ShouldEmitAlert(st.cooldown, d.epc, now)
     THEN [st |-> st_obs, alerts |-> <<>>]
     ELSE [st |-> ScannerState(st.pos, st_obs.rfid, DictSet(st.cooldown, d.epc, now)),
           alerts |-> <<[type |-> "scanner_avoidance",
                         station_id |-> station_id,
                         timestamp |-> IsoMillis(now),
                         confidence |-> <<confidence, 100>>,
                         evidence |-> [epc |-> d.epc, sku |-> obs_sku,
                                       location |-> obs_location,
                                       last_pos_scan_ts |->
                                         IF last_scan_time # NoNumber
                                         THEN IsoMillis(last_scan_time) ELSE NoNumber]]>>]

\* ------------------------------------------------------ weight_discrepancy
ABS_TOLERANCE_GRAMS == 8
REL_TOLERANCE_PERCENT == 8   \* REL_TOLERANCE = 0.08

\* _catalog(): the product catalog (data/input/products_list.csv), an input
\* of the detectors: SKU -> expected weight in grams (NoNumber: no weight) and
\* expected quantity
Catalog ==
  [sku \in {"PRD_F_01", "PRD_S_02", "PRD_N_03", "PRD_T_04"} |->
     CASE sku = "PRD_F_01" -> [expected_weight_g |-> 150, quantity |-> 100]
       [] sku = "PRD_S_02" -> [expected_weight_g |-> 50, quantity |-> 20]
       [] sku = "PRD_T_04" -> [expected_weight_g |-> NoNumber, quantity |-> 80]
       [] OTHER -> [expected_weight_g |-> NoNumber, quantity |-> 0]]

\* nearest hundredth of num/den (round(x, 2)), in hundredths
Round2(num, den) == (200 * num + den) \div (2 * den)

WeightKey(event) == <<event.station_id, IsoMillis(event.timestamp), event.data.sku>>

\* 100 * tolerance and 100 * diff, in grams
WeightTolerance100(expected_weight) ==
  Max2(100 * ABS_TOLERANCE_GRAMS, expected_weight * REL_TOLERANCE_PERCENT)

\* pos_data.get("weight_g") or pos_data.get("weight"): a zero weight_g is
\* falsy and gives way to "weight", which the modelled frames do not carry
MeasuredWeight(data) == IF data.weight_g = 0 THEN NoNumber ELSE data.weight_g

\* lines 35-53: the event passes every early return up to the tolerance test
OutOfTolerance(event) ==
  /\ event.dataset \in POS_DATASETS
  /\ Truthy(event.data.sku)
  /\ MeasuredWeight(event.data) # NoNumber
  /\ DictHas(Catalog, event.data.sku)
  /\ Catalog[event.data.sku].expected_weight_g # NoNumber
  /\ 100 * Abs(event.data.weight_g - Catalog[event.data.sku].expected_weight_g)
       > WeightTolerance100(Catalog[event.data.sku].expected_weight_g)

WeightAlert(event) ==
  LET expected_weight == Catalog[event.data.sku].expected_weight_g
      diff == Abs(event.data.weight_g - expected_weight)
      \* min(0.99, 0.6 + diff / expected), as a fraction of den
      den == IF expected_weight # 0 THEN 100 * expected_weight ELSE 100
      raw == IF expected_weight # 0 THEN 60 * expected_weight + 100 * diff ELSE 60
  IN [type |-> "weight_discrepancy",
      station_id |-> event.station_id,
      timestamp |-> IsoMillis(event.timestamp),
      confidence |-> <<Round2(Min2(raw, (99 * den) \div 100), den), 100>>,
      evidence |-> [sku |-> event.data.sku,
                    measured_weight_g |-> event.data.weight_g,
                    expected_weight_g |-> expected_weight,
                    difference_g |-> diff]]

DetectWeightDiscrepancyNoDedup(flagged, event) ==
  IF ~OutOfTolerance(event)
  THEN [flagged |-> flagged, alerts |-> <<>>]
  ELSE [flagged |-> flagged \cup {WeightKey(event)}, alerts |-> <<WeightAlert(event)>>]

\* detect_weight_discrepancy: the new _flagged_transactions and the alerts
DetectWeightDiscrepancy(flagged, event) ==
  IF ~OutOfTolerance(event) \/ WeightKey(event) \in flagged
  THEN [flagged |-> flagged, alerts |-> <<>>]
  ELSE [flagged |-> flagged \cup {WeightKey(event)}, alerts |-> <<WeightAlert(event)>>]

\* ---------------------------------------------------------- system_health
SYSTEM_COOLDOWN == 3 * Minute

\* _normalise_status: the stripped string, None when it is blank or no string
NormaliseStatus(value) ==
  IF value # None /\ Strip(value) # "" THEN Strip(value) ELSE None

\* the status strings of the model that hold one of ERROR_KEYWORDS (error,
\* offline, crash, failure, fault) once lowered
StatusesWithErrorKeyword == {"error", "Scanner Offline", "System Crash", "Read Error"}

\* _is_error_status
IsErrorStatus(status) ==
  IF status \in {"Active", "active", "OK", "ok", "Ready", "Online"} THEN FALSE
  ELSE status \in StatusesWithErrorKeyword

\* raw.lower().startswith("ok") on the error codes of the model
LowerStartsWithOk(raw) == raw \in {"ok", "OK", "OK_READY"}

NewHealthState == [last_alert |-> NoNumber, recovered |-> TRUE]

\* detect_system_health: the new _health_state and the alerts
DetectSystemHealth(hs, event) ==
  LET d == event.data
      status0 == NormaliseStatus(event.status)
      status1 == IF status0 = None THEN NormaliseStatus(d.status) ELSE status0
      error_code == d.error_code
      status == IF error_code # None /\ ~LowerStartsWithOk(error_code) /\ status1 = None
                THEN "error" ELSE status1
      key == <<event.dataset, event.station_id>>
      state == IF DictHas(hs, key) THEN hs[key] ELSE NewHealthState
      now == event.timestamp
  IN IF status = None \/ (~IsErrorStatus(status) /\ error_code = None)
     THEN [hs |-> DictSet(hs, key, [state EXCEPT !.recovered = TRUE]), alerts |-> <<>>]
     ELSE IF state.last_alert # NoNumber /\ now - state.last_alert < SYSTEM_COOLDOWN
     THEN [hs |-> DictSet(hs, key, state), alerts |-> <<>>]
     ELSE [hs |-> DictSet(hs, key, [last_alert |-> now, recovered |-> FALSE]),
           alerts |-> <<[type |-> "system_error",
                         station_id |-> event.station_id,
                         timestamp |-> IsoMillis(now),
                         confidence |-> <<85, 100>>,
                         evidence |-> [dataset |-> event.dataset, status |-> status,
                                       error_code |-> error_code]]>>]

\* ----------------------------------------------------------- queue_health
QUEUE_DATASETS == {"Queue_monitor", "queue_monitoring"}
MAX_QUEUE_TARGET == 6
MAX_WAIT_SECONDS == 120
QUEUE_WINDOW == 5 * Minute
MIN_OBSERVATIONS == 3
QUEUE_COOLDOWN == 2 * Minute

RECURSIVE TrimWindow(_, _)
\* _trim_window
TrimWindow(series, now) ==
  IF series # <<>> /\ now - series[1][1] > QUEUE_WINDOW
  THEN TrimWindow(Tail(series), now)
  ELSE series

RECURSIVE SumValues(_)
SumValues(series) ==
  IF series = <<>> THEN 0 ELSE series[1][2] + SumValues(Tail(series))

QueueCooldownOver(last_alert, station_id, now) ==
  ~DictHas(last_alert, station_id) \/ now - last_alert[station_id] >= QUEUE_COOLDOWN

\* _process_queue_length: the new _recent_queues, _last_alert_queue, alerts
ProcessQueueLength(queues, last_alert, station_id, now, queue_length) ==
  LET old == IF DictHas(queues, station_id) THEN queues[station_id] ELSE <<>>
      series == TrimWindow(Append(old, <<now, queue_length>>), now)
      queues1 == DictSet(queues, station_id, series)
  IN IF queue_length < MAX_QUEUE_TARGET \/ ~QueueCooldownOver(last_alert, station_id, now)
     THEN [series |-> queues1, last |-> last_alert, alerts |-> <<>>]
     ELSE [series |-> queues1,
           last |-> DictSet(last_alert, station_id, now),
           alerts |-> <<[type |-> "queue_spike",
                         station_id |-> station_id,
                         timestamp |-> IsoMillis(now),
                         confidence |-> <<Min2(95, 60 + (queue_length - MAX_QUEUE_TARGET) * 8), 100>>,
                         evidence |-> [current_queue |-> queue_length,
                                       recent_sum |-> SumValues(series),
                                       observations |-> Len(series),
                                       target_queue |-> MAX_QUEUE_TARGET]]>>]

\* _process_wait_time: the new _recent_waits, _last_alert_wait, alerts.  The
\* average wait is sum / len; avg >= 120 is sum >= 120 * len
ProcessWaitTime(waits, last_alert, station_id, now, dwell_time) ==
  LET old == IF DictHas(waits, station_id) THEN waits[station_id] ELSE <<>>
      series == TrimWindow(Append(old, <<now, dwell_time>>), now)
      waits1 == DictSet(waits, station_id, series)
      total == SumValues(series)
      n == Len(series)
  IN IF n < MIN_OBSERVATIONS \/ total < MAX_WAIT_SECONDS * n
        \/ ~QueueCooldownOver(last_alert, station_id, now)
     THEN [series |-> waits1, last |-> last_alert, alerts |-> <<>>]
     ELSE [series |-> waits1,
           last |-> DictSet(last_alert, station_id, now),
           alerts |-> <<[type |-> "extended_wait",
                         station_id |-> station_id,
                         timestamp |-> IsoMillis(now),
                         \* min(0.99, 0.7 + (avg - 120) / 180)
                         confidence |-> <<Min2(99 * 180 * n,
                                               70 * 180 * n + 100 * (total - MAX_WAIT_SECONDS * n)),
                                          100 * 180 * n>>,
                         evidence |-> [recent_sum |-> total,
                                       threshold_s |-> MAX_WAIT_SECONDS,
                                       observations |-> n]]>>]

QueueState(waits, queues, last_queue, last_wait) ==
  [waits |-> waits, queues |-> queues, last_queue |-> last_queue, last_wait |-> last_wait]

\* detect_queue_health
DetectQueueHealth(qs, event) ==
  LET station_id == IF Truthy(event.station_id) THEN event.station_id ELSE "unknown"
      now == event.timestamp
      queue_length == event.data.customer_count
      dwell_time == event.data.average_dwell_time
      q == IF queue_length # NoNumber
           THEN ProcessQueueLength(qs.queues, qs.last_queue, station_id, now, queue_length)
           ELSE [series |-> qs.queues, last |-> qs.last_queue, alerts |-> <<>>]
      w == IF dwell_time # NoNumber
           THEN ProcessWaitTime(qs.waits, qs.last_wait, station_id, now, dwell_time)
           ELSE [series |-> qs.waits, last |-> qs.last_wait, alerts |-> <<>>]
  IN IF event.dataset \notin QUEUE_DATASETS
     THEN [qs |-> qs, alerts |-> <<>>]
     ELSE [qs |-> QueueState(w.series, q.series, q.last, w.last),
           alerts |-> q.alerts \o w.alerts]

\* -------------------------------------------------- inventory_discrepancy
INVENTORY_DATASETS == {"Current_inventory_data", "inventory_snapshots"}
INVENTORY_COOLDOWN == 10 * Minute
ABS_THRESHOLD == 8
REL_THRESHOLD_PERCENT == 12   \* REL_THRESHOLD = 0.12

\* _load_expected: SKU -> expected quantity, from the catalog
LoadExpected == [sku \in DOMAIN Catalog |-> Catalog[sku].quantity]

\* max(ABS_THRESHOLD, int(expected_qty * REL_THRESHOLD))
InventoryThreshold(expected_qty) ==
  Max2(ABS_THRESHOLD, (expected_qty * REL_THRESHOLD_PERCENT) \div 100)

RECURSIVE InventoryLoop(_, _, _, _)
\* the loop over observed.items(): entries is a sequence of <<sku, quantity>>,
\* a quantity int() cannot convert being NoNumber
InventoryLoop(acc, entries, event, expected) ==
  IF entries = <<>> THEN acc
  ELSE LET sku == entries[1][1]
           observed_qty == entries[1][2]
           expected_qty == IF DictHas(expected, sku) THEN expected[sku] ELSE NoNumber
           diff == observed_qty - expected_qty
           now == event.timestamp
           skip == \/ observed_qty = NoNumber
                   \/ expected_qty = NoNumber
                   \/ Abs(diff) < InventoryThreshold(expected_qty)
                   \/ (DictHas(acc.last, sku) /\ now - acc.last[sku] < INVENTORY_COOLDOWN)
           next == IF skip THEN acc
                   ELSE [last |-> DictSet(acc.last, sku, now),
                         alerts |-> Append(acc.alerts,
                           [type |-> "inventory_discrepancy",
                            station_id |-> event.station_id,
                            timestamp |-> IsoMillis(now),
                            \* min(0.99, 0.6 + abs(diff) / max(1, expected_qty))
                            confidence |-> <<Min2(99 * Max2(1, expected_qty),
                                                  60 * Max2(1, expected_qty) + 100 * Abs(diff)),
                                             100 * Max2(1, expected_qty)>>,
                            evidence |-> [sku |-> sku,
                                          expected_quantity |-> expected_qty,
                                          observed_quantity |-> observed_qty,
                                          difference |-> diff]])]
       IN InventoryLoop(next, Tail(entries), event, expected)

\* detect_inventory_discrepancy: the new _expected_cache, _last_alert, alerts
DetectInventoryDiscrepancy(cache, last, event) ==
  IF event.dataset \notin INVENTORY_DATASETS
  THEN [cache |-> cache, last |-> last, alerts |-> <<>>]
  ELSE LET expected == IF cache = <<>> THEN LoadExpected ELSE cache[1]
           r == InventoryLoop([last |-> last, alerts |-> <<>>],
                              event.data.quantities, event, expected)
       IN [cache |-> <<expected>>, last |-> r.last, alerts |-> r.alerts]

(***************************************************************************)
(* src/detection/__init__.py: the detectors share one event and run in the *)
(* order of DETECTOR_FUNCS.                                                *)
(***************************************************************************)
\* x.get(...) on payload["data"] raises AttributeError
NoGet(event) == event.data_shape \in {"null", "other"}

\* detect_barcode_switching raises: payload.get("data", {}).get(...)
BarcodeRaises(event) ==
  /\ Truthy(event.station_id)
  /\ event.dataset \in VISION_DATASETS \cup POS_DATASETS
  /\ NoGet(event)

\* detect_scanner_avoidance raises: payload.get("data", {}).get(...)
ScannerRaises(event) ==
  event.dataset \in POS_DATASETS \cup RFID_DATASETS /\ NoGet(event)

\* detect_weight_discrepancy raises: payload.get("data", {}).get(...)
WeightRaises(event) == event.dataset \in POS_DATASETS /\ NoGet(event)

\* detect_system_health tests isinstance(data, dict) before every read
SystemRaises(event) == FALSE

\* detect_queue_health raises: (payload.get("data") or {}).get(...)
QueueRaises(event) == event.dataset \in QUEUE_DATASETS /\ event.data_shape = "other"

\* detect_inventory_discrepancy returns [] unless isinstance(observed, dict)
InventoryRaises(event) == FALSE

\* the detectors' state, for process_event to thread through DETECTOR_FUNCS
DetState ==
  [preds |-> latest_predictions,
   st |-> ScannerState(recent_pos_by_sku, recent_rfid_by_epc, alert_cooldown),
   flagged |-> flagged_transactions,
   hs |-> health_state,
   qs |-> QueueState(recent_waits, recent_queues, last_alert_queue, last_alert_wait),
   cache |-> expected_cache,
   last |-> inv_last_alert,
   alerts |-> <<>>,
   raised |-> None]

\* one detector call on state x: the state it leaves, its alerts appended;
\* a raise ends process_event, the detectors after it are not called and
\* what the detector wrote before it raised stays written
CallBarcode(x, event, call) ==
  IF x.raised # None THEN x
  ELSE IF BarcodeRaises(event)
  THEN [x EXCEPT !.raised = "barcode_switching",
                 !.preds = IF event.dataset \in VISION_DATASETS THEN @
                           ELSE ExpirePredictions(@, event.timestamp)]
  ELSE LET r == DetectBarcodeSwitching(x.preds, event, call)
       IN [x EXCEPT !.preds = r.preds, !.alerts = @ \o r.alerts]

CallScanner(x, event) ==
  IF x.raised # None THEN x
  ELSE IF ScannerRaises(event)
  THEN [x EXCEPT !.raised = "scanner_avoidance",
                 !.st = ExpireOldRecords(@, event.timestamp)]
  ELSE LET r == DetectScannerAvoidance(x.st, event)
       IN [x EXCEPT !.st = r.st, !.alerts = @ \o r.alerts]

CallWeight(x, event) ==
  IF x.raised # None THEN x
  ELSE IF WeightRaises(event) THEN [x EXCEPT !.raised = "weight_discrepancy"]
  ELSE LET r == DetectWeightDiscrepancy(x.flagged, event)
       IN [x EXCEPT !.flagged = r.flagged, !.alerts = @ \o r.alerts]

CallSystem(x, event) ==
  IF x.raised # None THEN x
  ELSE LET r == DetectSystemHealth(x.hs, event)
       IN [x EXCEPT !.hs = r.hs, !.alerts = @ \o r.alerts]

CallQueue(x, event) ==
  IF x.raised # None THEN x
  ELSE IF QueueRaises(event) THEN [x EXCEPT !.raised = "queue_health"]
  ELSE LET r == DetectQueueHealth(x.qs, event)
       IN [x EXCEPT !.qs = r.qs, !.alerts = @ \o r.alerts]

CallInventory(x, event) ==
  IF x.raised # None \/ event.data_shape # "map" THEN x
  ELSE LET r == DetectInventoryDiscrepancy(x.cache, x.last, event)
       IN [x EXCEPT !.cache = r.cache, !.last = r.last, !.alerts = @ \o r.alerts]

\* process_event(event): the detectors in the order of DETECTOR_FUNCS
ProcessEventFrom(x, event, call) ==
  CallInventory(
    CallQueue(
      CallSystem(
        CallWeight(
          CallScanner(
            CallBarcode(x, event, call), event), event), event), event), event)

ProcessEventResult(event) == ProcessEventFrom(DetState, event, detCalls + 1)

\* process_event(event); when a detector raises, the call raises and returns
\* no alert
ProcessEvent(event) ==
  LET r == ProcessEventResult(event)
      returned == IF r.raised = None THEN r.alerts ELSE <<>>
  IN /\ detCalls < MaxDetEvents
     /\ detCalls' = detCalls + 1
     /\ latest_predictions' = r.preds
     /\ recent_pos_by_sku' = r.st.pos
     /\ recent_rfid_by_epc' = r.st.rfid
     /\ alert_cooldown' = r.st.cooldown
     /\ flagged_transactions' = r.flagged
     /\ health_state' = r.hs
     /\ recent_waits' = r.qs.waits
     /\ recent_queues' = r.qs.queues
     /\ last_alert_queue' = r.qs.last_queue
     /\ last_alert_wait' = r.qs.last_wait
     /\ expected_cache' = r.cache
     /\ inv_last_alert' = r.last
     /\ lastEvent' = event
     /\ lastAlerts' = returned
     /\ lastRaised' = r.raised
     /\ alertLog' = alertLog \o returned
     /\ posLog' = IF event.dataset \in POS_DATASETS THEN Append(posLog, event) ELSE posLog
     /\ sinceReset' = Append(sinceReset, event)

\* a reset_all that leaves the cooldown timestamps in place
ResetAllKeepingCooldowns ==
  /\ lastEvent # NoEvent
  /\ latest_predictions' = EmptyDict
  /\ recent_pos_by_sku' = EmptyDict
  /\ recent_rfid_by_epc' = EmptyDict
  /\ alert_cooldown' = alert_cooldown
  /\ flagged_transactions' = {}
  /\ health_state' = EmptyDict
  /\ recent_waits' = EmptyDict
  /\ recent_queues' = EmptyDict
  /\ last_alert_queue' = last_alert_queue
  /\ last_alert_wait' = last_alert_wait
  /\ expected_cache' = <<>>
  /\ inv_last_alert' = inv_last_alert
  /\ lastEvent' = NoEvent
  /\ lastAlerts' = <<>>
  /\ alertLog' = <<>>
  /\ posLog' = <<>>
  /\ lastRaised' = None
  /\ sinceReset' = <<>>
  /\ UNCHANGED detCalls

\* reset_all(): every detector's reset_state()
ResetAll ==
  /\ lastEvent # NoEvent
  /\ latest_predictions' = EmptyDict
  /\ recent_pos_by_sku' = EmptyDict
  /\ recent_rfid_by_epc' = EmptyDict
  /\ alert_cooldown' = EmptyDict
  /\ flagged_transactions' = {}
  /\ health_state' = EmptyDict
  /\ recent_waits' = EmptyDict
  /\ recent_queues' = EmptyDict
  /\ last_alert_queue' = EmptyDict
  /\ last_alert_wait' = EmptyDict
  /\ expected_cache' = <<>>
  /\ inv_last_alert' = EmptyDict
  /\ lastEvent' = NoEvent
  /\ lastAlerts' = <<>>
  /\ alertLog' = <<>>
  /\ posLog' = <<>>
  /\ lastRaised' = None
  /\ sinceReset' = <<>>
  /\ UNCHANGED detCalls

\* the module state after import
DetInit ==
  /\ latest_predictions = EmptyDict
  /\ recent_pos_by_sku = EmptyDict
  /\ recent_rfid_by_epc = EmptyDict
  /\ alert_cooldown = EmptyDict
  /\ flagged_transactions = {}
  /\ health_state = EmptyDict
  /\ recent_waits = EmptyDict
  /\ recent_queues = EmptyDict
  /\ last_alert_queue = EmptyDict
  /\ last_alert_wait = EmptyDict
  /\ expected_cache = <<>>
  /\ inv_last_alert = EmptyDict
  /\ detCalls = 0
  /\ lastEvent = NoEvent
  /\ lastAlerts = <<>>
  /\ alertLog = <<>>
  /\ posLog = <<>>
  /\ lastRaised = None
  /\ sinceReset = <<>>

\* ------------------------------------------------------------------ normalizer
\* pipeline/transform.py: the normalization entry points.  `records` keeps what
\* the entry points returned, in call order.
VARIABLES
  records,
  normCalls

normVars == <<records, normCalls>>

MaxNormCalls == 3

CANONICAL_DATASETS ==
  {"inventory_snapshots", "queue_monitoring", "product_recognition",
   "pos_transactions", "rfid_readings"}

\* _ALIASES
ALIASES ==
  [name \in CANONICAL_DATASETS \cup
            {"Current_inventory_data", "Queue_monitor", "Product_recognism",
             "POS_Transactions", "RFID_data"} |->
     CASE name = "Current_inventory_data" -> "inventory_snapshots"
       [] name = "Queue_monitor" -> "queue_monitoring"
       [] name = "Product_recognism" -> "product_recognition"
       [] name = "POS_Transactions" -> "pos_transactions"
       [] name = "RFID_data" -> "rfid_readings"
       [] OTHER -> name]

\* canonical_dataset(name): the KeyError becomes a ValueError
canonical_dataset(name) ==
  IF name \in DOMAIN ALIASES THEN ALIASES[name] ELSE "ValueError"

\* _parse_timestamp(value): the instant of an ISO string, NoNumber for the
\* ValueError raised on anything else
parse_timestamp(value) ==
  CASE value = "2025-08-13T16:00:00" -> 0
    [] value = "2025-08-13T16:00:05" -> 5 * Sec
    [] OTHER -> NoNumber

\* a stream frame: the envelope's dataset and timestamp, and the "event" payload
Frame(dataset, timestamp, event_is_map, event_timestamp) ==
  [dataset |-> dataset, timestamp |-> timestamp, event_is_map |-> event_is_map,
   event_timestamp |-> event_timestamp]

\* what an entry point returned: a SentinelEvent ("event"), a NormalizedRecord
\* ("record"), None, or a raised ValueError
NormResult(entry, outcome, given, dataset, timestamp) ==
  [entry |-> entry, outcome |-> outcome, given |-> given, dataset |-> dataset,
   timestamp |-> timestamp]

\* normalize_event(raw_line)
normalize_event(frame) ==
  LET timestamp_str == IF frame.timestamp # None THEN frame.timestamp
                       ELSE IF frame.event_is_map THEN frame.event_timestamp ELSE None
      failed == NormResult("normalize_event", "None", frame.dataset, None, NoNumber)
  IN  IF frame.dataset = None THEN failed
      ELSE IF timestamp_str = None THEN failed
      ELSE IF parse_timestamp(timestamp_str) = NoNumber THEN failed
      ELSE NormResult("normalize_event", "event", frame.dataset, frame.dataset,
                      parse_timestamp(timestamp_str))

\* normalize_payload(dataset, payload): payload_timestamp is payload.get("timestamp")
normalize_payload(entry, dataset, payload_timestamp) ==
  LET canonical == canonical_dataset(dataset)
      failed == NormResult(entry, "ValueError", dataset, None, NoNumber)
  IN  IF canonical = "ValueError" THEN failed
      ELSE IF parse_timestamp(payload_timestamp) = NoNumber THEN failed
      ELSE NormResult(entry, "record", dataset, canonical,
                      parse_timestamp(payload_timestamp))

\* normalize_stream_frame(frame)
normalize_stream_frame(frame) ==
  IF frame.dataset = None \/ ~frame.event_is_map
  THEN NormResult("normalize_stream_frame", "ValueError", frame.dataset, None, NoNumber)
  ELSE normalize_payload("normalize_stream_frame", frame.dataset, frame.event_timestamp)

\* sentinel_to_normalized(event), for the event normalize_event made of the frame
sentinel_to_normalized(frame) ==
  normalize_payload("sentinel_to_normalized", normalize_event(frame).dataset,
                    IF frame.event_is_map THEN frame.event_timestamp ELSE None)

Frames ==
  {Frame(ds, ts[1], TRUE, ts[2]) :
     ds \in {"POS_Transactions", "pos_transactions", "foo"},
     ts \in {<<"2025-08-13T16:00:00", "2025-08-13T16:00:00">>,
             <<None, "2025-08-13T16:00:05">>,
             <<"2025-08-13T16:00:00", None>>,
             <<None, "not-a-time">>}}
  \cup {Frame(None, "2025-08-13T16:00:00", TRUE, "2025-08-13T16:00:00"),
        Frame("Queue_monitor", "2025-08-13T16:00:05", FALSE, None)}

Returned(result) ==
  /\ normCalls < MaxNormCalls
  /\ normCalls' = normCalls + 1
  /\ records' = Append(records, result)

NormalizeEvent == \E frame \in Frames : Returned(normalize_event(frame))

NormalizePayload ==
  \E frame \in Frames :
    /\ frame.dataset # None
    /\ frame.event_is_map
    /\ Returned(normalize_payload("normalize_payload", frame.dataset, frame.event_timestamp))

NormalizeStreamFrame == \E frame \in Frames : Returned(normalize_stream_frame(frame))

SentinelToNormalized ==
  \E frame \in Frames :
    /\ normalize_event(frame).outcome = "event"
    /\ Returned(sentinel_to_normalized(frame))

NormInit ==
  /\ records = <<>>
  /\ normCalls = 0

\* --------------------------------------------------------------- queue metrics
\* analytics/queue_metrics.py: QueueMetricsService.  Dwell times are seconds,
\* service rates are hundredths of a customer per minute (rounded down), trend
\* and volatility are kept as exact fractions.  snapshotLog and incidentLog
\* keep everything ever appended, in order.
VARIABLES
  target_customers_per_station,
  history,
  alert_history,
  qmCalls,
  lastIngest,
  lastHealth,
  snapshotLog,
  incidentLog

qmVars == <<target_customers_per_station, history, alert_history, qmCalls,
            lastIngest, lastHealth, snapshotLog, incidentLog>>

history_length == 3
incident_history == 2
MaxIngests == 4

QmStations == {"REG1", "REG2"}
Targets == {4, 6}

\* self._trend_window
trend_window == Min2(history_length, 12)

\* self._thresholds
Thresholds(target) ==
  [dwell_warning |-> 240, dwell_critical |-> 480,
   queue_warning |-> target + 2, queue_critical |-> target * 2]

\* an observation payload; NoNumber stands for an absent key
QueuePayload(timestamp, customer_count, average_dwell_time, service_rate) ==
  [timestamp |-> timestamp, customer_count |-> customer_count,
   average_dwell_time |-> average_dwell_time, service_rate |-> service_rate]

\* `value or 0`
OrZero(value) == IF value = NoNumber THEN 0 ELSE value

\* a derived rate that may go negative when the queue grows
ServiceRateSigned(payload, hist, customer_count) ==
  IF payload.service_rate # NoNumber THEN payload.service_rate
  ELSE IF hist = <<>> THEN 0
  ELSE LET previous == hist[Len(hist)]
           elapsed == Max2(payload.timestamp - previous.timestamp, Sec)
       IN  0 - (((customer_count - previous.customer_count) * 6000 * Sec) \div elapsed)

\* ingest_observation lines 119-124
ServiceRate(payload, hist, customer_count) ==
  IF payload.service_rate # NoNumber THEN payload.service_rate
  ELSE IF hist = <<>> THEN 0
  ELSE LET previous == hist[Len(hist)]
           elapsed == Max2(payload.timestamp - previous.timestamp, Sec)
           serviced == Max2(previous.customer_count - customer_count, 0)
       IN  (serviced * 6000 * Sec) \div elapsed

\* ingest_observation lines 109-135: the QueueSnapshot built from a payload
MakeSnapshot(station_id, payload, hist) ==
  LET customer_count == OrZero(payload.customer_count)
  IN  [timestamp |-> payload.timestamp,
       station_id |-> station_id,
       customer_count |-> customer_count,
       average_dwell_time |-> OrZero(payload.average_dwell_time),
       service_rate |-> ServiceRate(payload, hist, customer_count),
       delta_customers |-> IF hist = <<>> THEN 0
                           ELSE customer_count - hist[Len(hist)].customer_count]

\* list(history)[-n:]
LastN(hist, n) ==
  IF Len(hist) <= n THEN hist ELSE SubSeq(hist, Len(hist) - n + 1, Len(hist))

\* a trend that is always 0.0
calculate_trend_flat(hist) == [num |-> 0, den |-> 1]

\* _calculate_trend, as the fraction num / den
calculate_trend(hist) ==
  LET snapshots == LastN(hist, trend_window)
      start == snapshots[1].customer_count
      end == snapshots[Len(snapshots)].customer_count
  IN  IF Len(snapshots) < 2 THEN [num |-> 0, den |-> 1]
      ELSE IF start = 0 /\ end = 0 THEN [num |-> 0, den |-> 1]
      ELSE IF start = 0 THEN [num |-> 1, den |-> 1]
      ELSE [num |-> end - start, den |-> start]

\* fraction > pct / 100, fraction < pct / 100 (den > 0)
FractionAbove(f, pct) == f.num * 100 > pct * f.den
FractionBelow(f, pct) == f.num * 100 < pct * f.den

RECURSIVE SumCounts(_)
SumCounts(snaps) ==
  IF snaps = <<>> THEN 0 ELSE snaps[1].customer_count + SumCounts(Tail(snaps))

RECURSIVE SumSquares(_)
SumSquares(snaps) ==
  IF snaps = <<>> THEN 0
  ELSE snaps[1].customer_count * snaps[1].customer_count + SumSquares(Tail(snaps))

\* a volatility that is always 0.0
calculate_volatility_flat(hist) == [num |-> 0, den |-> 1]

\* _calculate_volatility: its square, variance / mean^2, as the fraction
\* (n * sum of squares - sum^2) / sum^2
calculate_volatility(hist) ==
  LET snapshots == LastN(hist, trend_window)
      n == Len(snapshots)
      total == SumCounts(snapshots)
  IN  IF n < 3 THEN [num |-> 0, den |-> 1]
      ELSE IF total = 0 THEN [num |-> 0, den |-> 1]
      ELSE [num |-> n * SumSquares(snapshots) - total * total, den |-> total * total]

\* _score_to_status
score_to_status(score) ==
  IF score >= 85 THEN "optimal"
  ELSE IF score >= 70 THEN "stable"
  ELSE IF score >= 50 THEN "at-risk"
  ELSE "critical"

\* no clamp at all
ClampNot(score) == score

\* max(0.0, min(score, 100.0))
Clamp(score) == Max2(0, Min2(score, 100))

\* calculate_queue_health: the scores are whole numbers, so round(score, 1)
\* leaves them as they are
calculate_queue_health(station_id, hist, target) ==
  IF hist = <<>>
  THEN [station_id |-> station_id, health_score |-> 100, status |-> "unknown",
        alerts |-> <<>>, customer_count |-> 0]
  ELSE
    LET latest == hist[Len(hist)]
        th == Thresholds(target)
        dwell_critical == latest.average_dwell_time >= th.dwell_critical
        dwell_warning == ~dwell_critical /\ latest.average_dwell_time >= th.dwell_warning
        queue_critical == latest.customer_count >= th.queue_critical
        queue_warning == ~queue_critical /\ latest.customer_count >= th.queue_warning
        rate_low == latest.customer_count > 0 /\ latest.service_rate < 100
        trend == calculate_trend(hist)
        growth == FractionAbove(trend, 35)
        shrinking == ~growth /\ FractionBelow(trend, 0 - 40)
        volatile == FractionAbove(calculate_volatility(hist), 25)
        score == 100 - (IF dwell_critical THEN 45 ELSE 0) - (IF dwell_warning THEN 25 ELSE 0)
                     - (IF queue_critical THEN 30 ELSE 0) - (IF queue_warning THEN 18 ELSE 0)
                     - (IF rate_low THEN 12 ELSE 0)
                     - (IF growth THEN 8 ELSE 0) + (IF shrinking THEN 3 ELSE 0)
                     - (IF volatile THEN 4 ELSE 0)
        clamped == Clamp(score)
    IN  [station_id |-> station_id,
         health_score |-> clamped,
         status |-> score_to_status(clamped),
         alerts |-> (IF dwell_critical THEN <<"dwell_time_critical">> ELSE <<>>)
                    \o (IF dwell_warning THEN <<"dwell_time_warning">> ELSE <<>>)
                    \o (IF queue_critical THEN <<"queue_congestion">> ELSE <<>>)
                    \o (IF queue_warning THEN <<"queue_building">> ELSE <<>>)
                    \o (IF rate_low THEN <<"service_rate_low">> ELSE <<>>)
                    \o (IF growth THEN <<"queue_growth">> ELSE <<>>),
         customer_count |-> latest.customer_count]

RECURSIVE StagnantStart(_, _)
\* _stagnation_duration_minutes lines 412-417: the index of the oldest snapshot
\* of the trailing run of equal customer counts
StagnantStart(snapshots, i) ==
  IF i > 1 /\ snapshots[i - 1].customer_count = snapshots[i].customer_count
  THEN StagnantStart(snapshots, i - 1)
  ELSE i

\* the time between the two newest snapshots when their counts are equal
stagnation_adjacent(hist) ==
  IF Len(hist) < 2 THEN 0
  ELSE IF hist[Len(hist) - 1].customer_count # hist[Len(hist)].customer_count THEN 0
  ELSE Max2(hist[Len(hist)].timestamp - hist[Len(hist) - 1].timestamp, 0)

\* _stagnation_duration_minutes, in ticks
stagnation_duration(hist) ==
  IF Len(hist) < 2 THEN 0
  ELSE LET oldest == StagnantStart(hist, Len(hist))
       IN  IF oldest = Len(hist) THEN 0
           ELSE Max2(hist[Len(hist)].timestamp - hist[oldest].timestamp, 0)

\* _build_incident; uuid4 ids are modelled by the incident's serial number,
\* given when the incident is appended
Incident(station_id, incident_type, priority) ==
  [incident_id |-> 0, station_id |-> station_id, type |-> incident_type,
   priority |-> priority]

\* _detect_incidents
detect_incidents(station_id, hist, target) ==
  IF Len(hist) < 2 THEN <<>>
  ELSE
    LET latest == hist[Len(hist)]
        previous == hist[Len(hist) - 1]
        th == Thresholds(target)
        surge == /\ previous.customer_count > 0
                 /\ (latest.customer_count - previous.customer_count) * 10
                      >= 6 * Max2(previous.customer_count, 1)
                 /\ latest.customer_count >= th.queue_warning
        stalled == /\ stagnation_duration(hist) >= 2 * Minute
                   /\ latest.customer_count >= th.queue_warning
        cleared == /\ latest.customer_count = 0
                   /\ previous.customer_count >= target
        extreme == latest.average_dwell_time >= th.dwell_critical
    IN  (IF surge THEN <<Incident(station_id, "queue_surge", "high")>> ELSE <<>>)
        \o (IF stalled THEN <<Incident(station_id, "stalled_checkout", "high")>> ELSE <<>>)
        \o (IF cleared THEN <<Incident(station_id, "queue_cleared", "low")>> ELSE <<>>)
        \o (IF extreme THEN <<Incident(station_id, "extreme_wait", "critical")>> ELSE <<>>)

\* the incidents with their unique ids
WithIds(incidents, first) ==
  [i \in 1..Len(incidents) |-> [incidents[i] EXCEPT !.incident_id = first + i]]

\* ingest_observation(station_id, payload)
IngestObservation(station_id, payload) ==
  /\ qmCalls < MaxIngests
  /\ LET hist == history[station_id]
         snapshot == MakeSnapshot(station_id, payload, hist)
         appended == Extend(hist, <<snapshot>>, history_length)
         incidents == WithIds(detect_incidents(station_id, appended,
                                               target_customers_per_station),
                              Len(incidentLog))
     IN  /\ history' = [history EXCEPT ![station_id] = appended]
         /\ alert_history' = IF incidents # <<>>
                             THEN Extend(alert_history, incidents, incident_history)
                             ELSE alert_history
         /\ lastHealth' = calculate_queue_health(station_id, appended,
                                                 target_customers_per_station)
         /\ snapshotLog' = [snapshotLog EXCEPT ![station_id] = Append(@, snapshot)]
         /\ incidentLog' = incidentLog \o incidents
  /\ qmCalls' = qmCalls + 1
  /\ lastIngest' = <<[station_id |-> station_id, payload |-> payload]>>
  /\ UNCHANGED target_customers_per_station

\* calculate_queue_health(station_id) called on its own
CalculateQueueHealth ==
  \E station_id \in QmStations :
    /\ lastHealth' = calculate_queue_health(station_id, history[station_id],
                                            target_customers_per_station)
    /\ lastIngest' = <<>>
    /\ UNCHANGED <<target_customers_per_station, history, alert_history, qmCalls,
                   snapshotLog, incidentLog>>

\* a / b rounded down
Floor(a, b) == a \div b

\* math.ceil(a / b), b > 0
Ceil(a, b) == 0 - ((0 - a) \div b)

RECURSIVE SumLatest(_)
SumLatest(stations) ==
  IF stations = {} THEN 0
  ELSE LET s == CHOOSE x \in stations : TRUE
       IN  history[s][Len(history[s])].customer_count + SumLatest(stations \ {s})

\* calculate_staff_allocation(); the recommendation is its wording and its N
calculate_staff_allocation ==
  LET latest_snapshots == {s \in QmStations : history[s] # <<>>}
      total_customers == SumLatest(latest_snapshots)
      active_stations == Max2(1, Cardinality(latest_snapshots))
      required_stations == Max2(1, Ceil(total_customers, target_customers_per_station))
  IN  [recommendation |->
         IF required_stations > active_stations
         THEN <<"Open", required_stations - active_stations, "additional station(s)">>
         ELSE IF required_stations < active_stations
         THEN <<"Idle", active_stations - required_stations, "station(s) if demand stays low">>
         ELSE <<"Maintain current staffing">>,
       active_stations |-> active_stations,
       required_stations |-> required_stations,
       total_customers |-> total_customers,
       target_per_station |-> target_customers_per_station]

\* QueueMetricsService(target_customers_per_station = target): a fresh service
\* replaces the module's one before anything was ingested
NewService ==
  \E target \in Targets :
    /\ qmCalls = 0
    /\ target # target_customers_per_station
    /\ target_customers_per_station' = Max2(1, target)
    /\ lastIngest' = <<>>
    /\ lastHealth' = calculate_queue_health("REG1", <<>>, Max2(1, target))
    /\ UNCHANGED <<history, alert_history, qmCalls, snapshotLog, incidentLog>>

\* queue_metrics_service = QueueMetricsService()
QmInit ==
  /\ target_customers_per_station = Max2(1, 6)
  /\ history = [s \in QmStations |-> <<>>]
  /\ alert_history = <<>>
  /\ qmCalls = 0
  /\ lastIngest = <<>>
  /\ lastHealth = calculate_queue_health("REG1", <<>>, target_customers_per_station)
  /\ snapshotLog = [s \in QmStations |-> <<>>]
  /\ incidentLog = <<>>

\* ------------------------------------------------- concurrent register_event
\* integration/api_server.py: ThreadingHTTPServer runs each stream-data request
\* in a thread of its own, and the handlers call register_event on the one
\* event_correlator without a lock.  A thread may be preempted between any two
\* of the steps below; thr holds each thread's local variables.
VARIABLES
  thr,
  called,
  returned

thrVars == <<thr, called, returned>>

Threads == {1, 2}

\* a thread outside register_event
IdleThread ==
  [pc |-> "idle", station_id |-> None, pos |-> <<>>, rfid |-> <<>>, vision |-> <<>>,
   i |-> 0, new_correlated |-> <<>>, new_suspicious |-> <<>>]

\* register_event lines 57-68: the record is appended and the window pruned
StartRegister(t, stream, station_id, timestamp, payload) ==
  LET record == [stream |-> NormaliseStreamName(stream),
                 station_id |-> station_id,
                 timestamp |-> timestamp,
                 payload |-> payload]
  IN  /\ thr[t].pc = "idle"
      /\ called[t] = <<>>
      /\ corrCalls < MaxCorrEvents
      /\ corrCalls' = corrCalls + 1
      /\ events' = Prune(Append(events, record), timestamp)
      /\ lastRegistered' = record
      /\ called' = [called EXCEPT ![t] = <<record>>]
      /\ thr' = [thr EXCEPT ![t] = [IdleThread EXCEPT !.pc = "evaluate",
                                                      !.station_id = station_id]]
      /\ UNCHANGED <<correlated, suspicious, seen_correlations, seen_suspicious,
                     lastEvals, corrLog, suspLog, returned>>

\* _evaluate_station lines 81-86: the thread's own list of recent events
CollectStep(t) ==
  /\ thr[t].pc = "evaluate"
  /\ LET groups == GroupEvents(CollectRecentEvents(events, thr[t].station_id))
     IN  thr' = [thr EXCEPT ![t] = [@ EXCEPT !.pc = IF groups.pos = <<>> THEN "finish"
                                                     ELSE "check_correlation",
                                             !.pos = groups.pos,
                                             !.rfid = groups.rfid,
                                             !.vision = groups.vision,
                                             !.i = 1]]
  /\ UNCHANGED <<corrVars, called, returned>>

\* _assess_pos_event lines 137-146 for the POS event the thread is at
Assessment(th) ==
  LET pos_event == th.pos[th.i]
      sku == ExtractSku(pos_event.payload)
      rfid_matches == SelectSeqIdx(th.rfid,
                        {i \in 1..Len(th.rfid) : ExtractSku(th.rfid[i].payload) = sku})
      vision_matches == SelectSeqIdx(th.vision,
                        {i \in 1..Len(th.vision) : ExtractSku(th.vision[i].payload) = sku})
      matches == rfid_matches \o vision_matches
      alignment == TimeAlignment(pos_event.timestamp,
                                 [i \in 1..Len(matches) |-> matches[i].timestamp])
  IN  [pos_event |-> pos_event, sku |-> sku, rfid_matches |-> rfid_matches,
       vision_matches |-> vision_matches,
       confidence |-> ConfidenceScore(rfid_matches # <<>>, vision_matches # <<>>, alignment)]

\* the loop of _evaluate_station moves to the next POS event
NextPos(th) ==
  [th EXCEPT !.i = th.i + 1,
             !.pc = IF th.i + 1 > Len(th.pos) THEN "finish" ELSE "check_correlation"]

\* _build_correlation lines 182-184: the test `key in self._seen_correlations`
CheckCorrelation(t) ==
  /\ thr[t].pc = "check_correlation"
  /\ LET a == Assessment(thr[t])
         built == BuildCorrelation(seen_correlations, thr[t].station_id, a.sku, a.pos_event,
                                   a.rfid_matches, a.vision_matches, a.confidence)
     IN  thr' = [thr EXCEPT ![t] =
                   IF a.sku = None THEN NextPos(@)
                   ELSE [@ EXCEPT !.pc = IF built.out # <<>> THEN "add_correlation"
                                         ELSE "check_suspicious"]]
  /\ UNCHANGED <<corrVars, called, returned>>

\* _build_correlation lines 186-199: the key is added and the record built
AddCorrelation(t) ==
  /\ thr[t].pc = "add_correlation"
  /\ LET a == Assessment(thr[t])
         built == BuildCorrelation({}, thr[t].station_id, a.sku, a.pos_event,
                                   a.rfid_matches, a.vision_matches, a.confidence)
     IN  /\ seen_correlations' = seen_correlations \cup built.seen
         /\ thr' = [thr EXCEPT ![t] = [@ EXCEPT !.pc = "check_suspicious",
                                                 !.new_correlated = @ \o built.out]]
  /\ UNCHANGED <<events, correlated, suspicious, seen_suspicious, corrCalls,
                 lastRegistered, lastEvals, corrLog, suspLog, called, returned>>

\* _build_suspicious: the test `key in self._seen_suspicious`
CheckSuspicious(t) ==
  /\ thr[t].pc = "check_suspicious"
  /\ LET a == Assessment(thr[t])
         built == BuildSuspicious(seen_suspicious, thr[t].station_id, a.sku, a.pos_event,
                                  a.rfid_matches, thr[t].vision, a.vision_matches,
                                  a.confidence)
     IN  thr' = [thr EXCEPT ![t] = IF built.out # <<>>
                                   THEN [@ EXCEPT !.pc = "add_suspicious"]
                                   ELSE NextPos(@)]
  /\ UNCHANGED <<corrVars, called, returned>>

\* _build_suspicious: the key is added and the record built
AddSuspicious(t) ==
  /\ thr[t].pc = "add_suspicious"
  /\ LET a == Assessment(thr[t])
         built == BuildSuspicious({}, thr[t].station_id, a.sku, a.pos_event,
                                  a.rfid_matches, thr[t].vision, a.vision_matches,
                                  a.confidence)
     IN  /\ seen_suspicious' = seen_suspicious \cup built.seen
         /\ thr' = [thr EXCEPT ![t] = NextPos([@ EXCEPT !.new_suspicious = @ \o built.out])]
  /\ UNCHANGED <<events, correlated, suspicious, seen_correlations, corrCalls,
                 lastRegistered, lastEvals, corrLog, suspLog, called, returned>>

\* register_event lines 70-76: the histories are extended and the lists returned
FinishRegister(t) ==
  /\ thr[t].pc = "finish"
  /\ correlated' = Extend(correlated, thr[t].new_correlated, max_history)
  /\ suspicious' = Extend(suspicious, thr[t].new_suspicious, max_history)
  /\ corrLog' = corrLog \o thr[t].new_correlated
  /\ suspLog' = suspLog \o thr[t].new_suspicious
  /\ returned' = [returned EXCEPT ![t] = <<[correlations |-> thr[t].new_correlated,
                                            suspicious |-> thr[t].new_suspicious]>>]
  /\ thr' = [thr EXCEPT ![t] = IdleThread]
  /\ UNCHANGED <<events, seen_correlations, seen_suspicious, corrCalls,
                 lastRegistered, lastEvals, called>>

\* register_event run on its own from the correlator state st: the state it
\* leaves and the lists it returns
SerialRegister(st, record) ==
  LET pruned == Prune(Append(st.events, record), record.timestamp)
      res == EvaluateStation(pruned, st.seen_correlations, st.seen_suspicious,
                             record.station_id)
  IN  [st |-> [events |-> pruned,
               correlated |-> Extend(st.correlated, res.new_correlated, max_history),
               suspicious |-> Extend(st.suspicious, res.new_suspicious, max_history),
               seen_correlations |-> res.seen_c,
               seen_suspicious |-> res.seen_s],
       ret |-> [correlations |-> res.new_correlated, suspicious |-> res.new_suspicious]]

ThrInit ==
  /\ thr = [t \in Threads |-> IdleThread]
  /\ called = [t \in Threads |-> <<>>]
  /\ returned = [t \in Threads |-> <<>>]

\* --------------------------------------------- concurrent ingest_observation
\* The request threads of ThreadingHTTPServer call ingest_observation on the
\* one queue_metrics_service without a lock.  qthr holds each thread's local
\* variables; ingested keeps the payloads in the order their snapshots were
\* appended.
VARIABLES
  qthr,
  ingested

qthrVars == <<qthr, ingested>>

NoSnapshot ==
  [timestamp |-> 0, station_id |-> None, customer_count |-> 0,
   average_dwell_time |-> 0, service_rate |-> 0, delta_customers |-> 0]

IdleIngest ==
  [pc |-> "idle", station_id |-> None,
   payload |-> QueuePayload(0, NoNumber, NoNumber, NoNumber), snapshot |-> NoSnapshot]

\* ingest_observation lines 109-135: `previous` is read and the snapshot built
ReadPrevious(t, station_id, payload) ==
  /\ qthr[t].pc = "idle"
  /\ qmCalls < MaxIngests
  /\ qmCalls' = qmCalls + 1
  /\ qthr' = [qthr EXCEPT ![t] = [pc |-> "append", station_id |-> station_id,
                                  payload |-> payload,
                                  snapshot |-> MakeSnapshot(station_id, payload,
                                                            history[station_id])]]
  /\ UNCHANGED <<target_customers_per_station, history, alert_history, lastIngest,
                 lastHealth, snapshotLog, incidentLog, ingested>>

\* ingest_observation line 137: history.append(snapshot)
AppendSnapshot(t) ==
  /\ qthr[t].pc = "append"
  /\ history' = [history EXCEPT ![qthr[t].station_id] =
                   Extend(@, <<qthr[t].snapshot>>, history_length)]
  /\ snapshotLog' = [snapshotLog EXCEPT ![qthr[t].station_id] = Append(@, qthr[t].snapshot)]
  /\ ingested' = Append(ingested, qthr[t].payload)
  /\ qthr' = [qthr EXCEPT ![t] = [@ EXCEPT !.pc = "incidents"]]
  /\ UNCHANGED <<target_customers_per_station, alert_history, qmCalls, lastIngest,
                 lastHealth, incidentLog>>

\* ingest_observation lines 139-143: the incidents are detected on the history
\* as it now is, and the health of the station is returned
FinishIngest(t) ==
  /\ qthr[t].pc = "incidents"
  /\ LET station_id == qthr[t].station_id
         incidents == WithIds(detect_incidents(station_id, history[station_id],
                                               target_customers_per_station),
                              Len(incidentLog))
     IN  /\ alert_history' = IF incidents # <<>>
                             THEN Extend(alert_history, incidents, incident_history)
                             ELSE alert_history
         /\ incidentLog' = incidentLog \o incidents
         /\ lastHealth' = calculate_queue_health(station_id, history[station_id],
                                                 target_customers_per_station)
         /\ lastIngest' = <<[station_id |-> station_id, payload |-> qthr[t].payload]>>
  /\ qthr' = [qthr EXCEPT ![t] = IdleIngest]
  /\ UNCHANGED <<target_customers_per_station, history, qmCalls, snapshotLog, ingested>>

QthrInit ==
  /\ qthr = [t \in Threads |-> IdleIngest]
  /\ ingested = <<>>

\* ---------------------------------------------------------------- stream reader
\* io/stream_reader.py: the generator read_stream and the peer it reads from.
\* A line is a record [kind, seq]; the peer numbers the JSON lines it sends.
\* connLog, received, yielded and sleeps record the connection attempts, the
\* lines received, the objects yielded and the time.sleep calls, in order.
VARIABLES
  rs_pc,
  rs_args,
  attempts,
  remaining,
  buf,
  yielded,
  sleeps,
  connLog,
  received,
  rs_raised,
  timeouts

rsVars == <<rs_pc, rs_args, attempts, remaining, buf, yielded, sleeps, connLog,
            received, rs_raised, timeouts>>

MaxRetries == 2
MaxLines == 3
MaxTimeouts == 1
MaxConnects == MaxRetries + 1

\* backoff_factor = 0.5 (seconds)
backoff_factor == 500 * Ms

RECURSIVE TwoToThe(_)
TwoToThe(n) == IF n <= 0 THEN 1 ELSE 2 * TwoToThe(n - 1)

\* a backoff that starts one doubling too high
BackoffDoubled(n) == backoff_factor * TwoToThe(n)

\* line 94: backoff_factor * (2 ** (attempts - 1))
Backoff(n) == backoff_factor * TwoToThe(n - 1)

Line(kind, seq) == [kind |-> kind, seq |-> seq]

\* the arguments of a call; limit is <<>> for None
ReadArgs(limit, reconnect, max_retries, strict) ==
  [limit |-> limit, reconnect |-> reconnect, max_retries |-> max_retries,
   strict |-> strict]

\* lines 38-40: read_stream(host, port, limit, reconnect, max_retries, strict)
ReadStream(limit, reconnect, max_retries, strict) ==
  /\ rs_pc = "idle"
  /\ rs_pc' = "connect"
  /\ rs_args' = ReadArgs(limit, reconnect, max_retries, strict)
  /\ attempts' = 0
  /\ remaining' = limit
  /\ UNCHANGED <<buf, yielded, sleeps, connLog, received, rs_raised, timeouts>>

\* lines 88-96: the handler of the outer try, entered with `attempts` = n
HandleFailure(n) ==
  /\ attempts' = n
  /\ buf' = <<>>
  /\ IF ~rs_args.reconnect \/ n > rs_args.max_retries
     THEN /\ rs_pc' = "raised"
          /\ rs_raised' = "ConnectionError"
          /\ sleeps' = sleeps
     ELSE /\ rs_pc' = "connect"
          /\ rs_raised' = rs_raised
          /\ sleeps' = Append(sleeps, Backoff(n))

\* lines 44-48: the connection is established
ConnectAccepted ==
  /\ rs_pc = "connect"
  /\ Len(connLog) < MaxConnects
  /\ connLog' = Append(connLog, "accepted")
  /\ attempts' = attempts + 1
  /\ buf' = <<>>
  /\ rs_pc' = "recv"
  /\ UNCHANGED <<rs_args, remaining, yielded, sleeps, received, rs_raised, timeouts>>

\* lines 44-45: socket.create_connection raises
ConnectRefused ==
  /\ rs_pc = "connect"
  /\ Len(connLog) < MaxConnects
  /\ connLog' = Append(connLog, "refused")
  /\ HandleFailure(attempts + 1)
  /\ UNCHANGED <<rs_args, remaining, yielded, received, timeouts>>

\* lines 51-55: recv times out and is tried again
RecvTimeout ==
  /\ rs_pc = "recv"
  /\ buf = <<>>
  /\ timeouts < MaxTimeouts
  /\ timeouts' = timeouts + 1
  /\ UNCHANGED <<rs_pc, rs_args, attempts, remaining, buf, yielded, sleeps, connLog,
                 received, rs_raised>>

\* lines 56-58, 83-87: the peer closed the connection
RecvClosed ==
  /\ rs_pc = "recv"
  /\ buf = <<>>
  /\ IF ~rs_args.reconnect
     THEN rs_pc' = "returned" /\ attempts' = attempts
     ELSE rs_pc' = "connect" /\ attempts' = 0
  /\ UNCHANGED <<rs_args, remaining, buf, yielded, sleeps, connLog, received,
                 rs_raised, timeouts>>

\* line 51: recv raises a socket error other than a timeout
RecvFailed ==
  /\ rs_pc = "recv"
  /\ buf = <<>>
  /\ HandleFailure(attempts)
  /\ UNCHANGED <<rs_args, remaining, yielded, connLog, received, timeouts>>

\* the JSON lines received so far
JsonLines(lines) == SelectSeqIdx(lines, {i \in 1..Len(lines) : lines[i].kind = "json"})

\* the chunks the peer sends: one line of any kind, or two lines at once
Chunks ==
  LET n == Len(JsonLines(received))
  IN  {<<Line(kind, IF kind = "json" THEN n ELSE 0)>> :
          kind \in {"json", "blank", "bad_utf8", "bad_json"}}
      \cup {<<Line("json", n), Line("json", n + 1)>>,
            <<Line("bad_json", 0), Line("json", n)>>}

\* lines 51, 59: recv returns a chunk of complete lines
RecvChunk ==
  /\ rs_pc = "recv"
  /\ buf = <<>>
  /\ \E chunk \in Chunks :
       /\ Len(received) + Len(chunk) <= MaxLines
       /\ buf' = chunk
       /\ received' = received \o chunk
  /\ UNCHANGED <<rs_pc, rs_args, attempts, remaining, yielded, sleeps, connLog,
                 rs_raised, timeouts>>

\* lines 60-82: the next line of the buffer
ProcessLine ==
  /\ rs_pc = "recv"
  /\ buf # <<>>
  /\ LET line == buf[1]
     IN  CASE line.kind = "blank" ->
                /\ buf' = Tail(buf)
                /\ UNCHANGED <<rs_pc, attempts, remaining, yielded, sleeps, rs_raised>>
           [] line.kind \in {"bad_utf8", "bad_json"} ->
                IF rs_args.strict
                THEN HandleFailure(attempts) /\ UNCHANGED <<remaining, yielded>>
                ELSE /\ buf' = Tail(buf)
                     /\ UNCHANGED <<rs_pc, attempts, remaining, yielded, sleeps, rs_raised>>
           [] OTHER ->
                /\ yielded' = Append(yielded, line.seq)
                /\ buf' = Tail(buf)
                /\ remaining' = IF remaining = <<>> THEN remaining
                                ELSE <<remaining[1] - 1>>
                /\ rs_pc' = IF remaining # <<>> /\ remaining[1] - 1 <= 0
                            THEN "returned" ELSE rs_pc
                /\ UNCHANGED <<attempts, sleeps, rs_raised>>
  /\ UNCHANGED <<rs_args, connLog, received, timeouts>>

RsInit ==
  /\ rs_pc = "idle"
  /\ rs_args = ReadArgs(<<>>, TRUE, 5, FALSE)
  /\ attempts = 0
  /\ remaining = <<>>
  /\ buf = <<>>
  /\ yielded = <<>>
  /\ sleeps = <<>>
  /\ connLog = <<>>
  /\ received = <<>>
  /\ rs_raised = None
  /\ timeouts = 0

\* ---------------------------------------------------------------- undated events
\* An event whose timestamp is missing or unparseable: _parse_timestamp falls
\* back to the wall clock (event_correlation.py line 18, queue_metrics.py line
\* 37).  NoNumber stands for such a timestamp; clock_read is the reading the
\* last call took, <<>> when it took none.
VARIABLE clock_read

clockVars == <<clock_read>>

\* what the wall clock may read
WallClock == {10 * Sec, 40 * Sec}

\* _parse_timestamp(value), with `now` the wall clock at the call
ParseTimestamp(value, now) == IF value = NoNumber THEN now ELSE value

ClockRead(value, now) == IF value = NoNumber THEN <<now>> ELSE <<>>

\* register_event(stream, event) for an event with any timestamp
RegisterAt(e, now) ==
  /\ RegisterEvent(e.stream, e.station_id, ParseTimestamp(e.timestamp, now), e.payload)
  /\ clock_read' = ClockRead(e.timestamp, now)

\* ingest_observation(station_id, payload) for a payload with any timestamp
IngestAt(station_id, payload, now) ==
  /\ IngestObservation(station_id,
                       [payload EXCEPT !.timestamp = ParseTimestamp(@, now)])
  /\ clock_read' = ClockRead(payload.timestamp, now)

\* ingest_observation with a customer_count or dwell time that int() or float()
\* rejects: line 111 or 112 raises before anything is written
IngestUncoercible(station_id, timestamp, now) ==
  /\ qmCalls < MaxIngests
  /\ qmCalls' = qmCalls + 1
  /\ lastIngest' = <<>>
  /\ clock_read' = ClockRead(timestamp, now)
  /\ UNCHANGED <<target_customers_per_station, history, alert_history, lastHealth,
                 snapshotLog, incidentLog>>

ClockInit == clock_read = <<>>

\* ---------------------------------------------------------------- compute_kpis
\* analytics/queue_metrics.py, compute_kpis(events).  kpi_events is the list
\* handed to the last call and kpis the dict it returned.  A float is kept as
\* a reduced fraction [num, den]; None is the fraction with den = 0.
VARIABLES
  kpi_events,
  kpis

kpiVars == <<kpi_events, kpis>>

MaxKpiEvents == 3

RECURSIVE GCD(_, _)
GCD(a, b) == IF b = 0 THEN a ELSE GCD(b, a % b)

\* n / d for n >= 0 and d > 0
Frac(n, d) == [num |-> n \div GCD(n, d), den |-> d \div GCD(n, d)]

NoneFrac == [num |-> 0, den |-> 0]

FracAdd(a, b) == Frac(a.num * b.den + b.num * a.den, a.den * b.den)

RECURSIVE SumOf(_)
SumOf(xs) == IF xs = <<>> THEN 0 ELSE xs[1] + SumOf(Tail(xs))

RECURSIVE MaxOf(_)
MaxOf(xs) == IF Len(xs) = 1 THEN xs[1] ELSE Max2(xs[1], MaxOf(Tail(xs)))

RECURSIVE FracSum(_)
FracSum(fs) == IF fs = <<>> THEN Frac(0, 1) ELSE FracAdd(fs[1], FracSum(Tail(fs)))

\* statistics.mean of a list of numbers, `None` for the empty list
MeanOrNone(xs) == IF xs = <<>> THEN NoneFrac ELSE Frac(SumOf(xs), Len(xs))

MaxOrNone(xs) == IF xs = <<>> THEN NoneFrac ELSE Frac(MaxOf(xs), 1)

\* the mean of a list of fractions, `None` for the empty list
FracMeanOrNone(fs) ==
  IF fs = <<>> THEN NoneFrac
  ELSE LET total == FracSum(fs) IN Frac(total.num, total.den * Len(fs))

\* lines 467-476: the events compute_kpis keeps
IsKpiSample(event) ==
  /\ event.dataset \in QUEUE_DATASETS
  /\ ~(event.data.customer_count = NoNumber /\ event.data.average_dwell_time = NoNumber)

\* line 477
StationKey(event) == IF Truthy(event.station_id) THEN event.station_id ELSE "unknown"

\* line 479: (timestamp, queue_length, dwell)
KpiSample(event) ==
  [timestamp |-> event.timestamp, q |-> event.data.customer_count,
   w |-> event.data.average_dwell_time]

\* lines 464-479: per_station[station], in the order the events were supplied
RECURSIVE PerStation(_, _)
PerStation(evs, station) ==
  IF evs = <<>> THEN <<>>
  ELSE (IF IsKpiSample(evs[1]) /\ StationKey(evs[1]) = station
        THEN <<KpiSample(evs[1])>> ELSE <<>>)
       \o PerStation(Tail(evs), station)

KpiStations(evs) == {StationKey(evs[i]) : i \in {j \in 1..Len(evs) : IsKpiSample(evs[j])}}

\* line 497: series.sort(key=timestamp), a stable sort
RECURSIVE SortByTimestamp(_)
SortByTimestamp(series) ==
  IF series = <<>> THEN <<>>
  ELSE LET n == Len(series)
           sorted == SortByTimestamp(SubSeq(series, 1, n - 1))
           x == series[n]
           k == Cardinality({i \in 1..(n - 1) : sorted[i].timestamp <= x.timestamp})
       IN  SubSeq(sorted, 1, k) \o <<x>> \o SubSeq(sorted, k + 1, n - 1)

\* lines 533-544: the increase per minute of pair idx, <<>> when skipped
PairRate(series, idx) ==
  LET s0 == series[idx - 1]
      s1 == series[idx]
  IN  IF s0.q = NoNumber \/ s1.q = NoNumber THEN <<>>
      ELSE IF s1.timestamp - s0.timestamp <= 0 THEN <<>>
      ELSE IF s1.q - s0.q <= 0 THEN <<>>
      ELSE <<Frac((s1.q - s0.q) * Minute, s1.timestamp - s0.timestamp)>>

RECURSIVE PairRates(_, _)
PairRates(series, idx) ==
  IF idx > Len(series) THEN <<>>
  ELSE PairRate(series, idx) \o PairRates(series, idx + 1)

\* _estimate_arrival_rate(series)
estimate_arrival_rate(series) == FracMeanOrNone(PairRates(series, 2))

Defined(values) == SelectSeqIdx(values, {i \in 1..Len(values) : values[i] # NoNumber})

\* lines 496-516: the KPIs of one station
StationKpis(series) ==
  LET sorted == SortByTimestamp(series)
      queues == Defined([i \in 1..Len(sorted) |-> sorted[i].q])
      waits == Defined([i \in 1..Len(sorted) |-> sorted[i].w])
  IN  [avg_queue_length |-> MeanOrNone(queues),
       peak_queue_length |-> MaxOrNone(queues),
       avg_wait_seconds |-> MeanOrNone(waits),
       peak_wait_seconds |-> MaxOrNone(waits),
       avg_arrival_rate_per_min |-> estimate_arrival_rate(sorted)]

RECURSIVE SetToSeq(_)
SetToSeq(S) ==
  IF S = {} THEN <<>>
  ELSE LET x == CHOOSE y \in S : TRUE IN <<x>> \o SetToSeq(S \ {x})

\* compute_kpis(events)
compute_kpis(evs) ==
  LET kept == SelectSeqIdx(evs, {i \in 1..Len(evs) : IsKpiSample(evs[i])})
      station_kpis == [st \in KpiStations(evs) |-> StationKpis(PerStation(evs, st))]
      all_queues == Defined([i \in 1..Len(kept) |-> kept[i].data.customer_count])
      all_waits == Defined([i \in 1..Len(kept) |-> kept[i].data.average_dwell_time])
      rated == SetToSeq({st \in KpiStations(evs) :
                           station_kpis[st].avg_arrival_rate_per_min # NoneFrac})
      arrival_rates == [i \in 1..Len(rated) |-> station_kpis[rated[i]].avg_arrival_rate_per_min]
  IN  [station_kpis |-> station_kpis,
       avg_queue_length |-> MeanOrNone(all_queues),
       peak_queue_length |-> MaxOrNone(all_queues),
       avg_wait_seconds |-> MeanOrNone(all_waits),
       peak_wait_seconds |-> MaxOrNone(all_waits),
       avg_arrival_rate_per_min |-> FracMeanOrNone(arrival_rates)]

\* compute_kpis called on a list of events
ComputeKpis(evs) ==
  /\ kpi_events' = evs
  /\ kpis' = compute_kpis(evs)

KpiInit ==
  /\ kpi_events = <<>>
  /\ kpis = compute_kpis(<<>>)

notCorrVars == <<detVars, normVars, qmVars, thrVars, qthrVars, rsVars, clockVars, kpiVars>>
notDetVars == <<corrVars, normVars, qmVars, thrVars, qthrVars, rsVars, clockVars, kpiVars>>
notNormVars == <<corrVars, detVars, qmVars, thrVars, qthrVars, rsVars, clockVars, kpiVars>>
notQmVars == <<corrVars, detVars, normVars, thrVars, qthrVars, rsVars, clockVars, kpiVars>>
notCorrThrVars == <<detVars, normVars, qmVars, qthrVars, rsVars, clockVars, kpiVars>>
notQmQthrVars == <<corrVars, detVars, normVars, thrVars, rsVars, clockVars, kpiVars>>
notRsVars == <<corrVars, detVars, normVars, qmVars, thrVars, qthrVars, clockVars, kpiVars>>
notCorrClockVars == <<detVars, normVars, qmVars, thrVars, qthrVars, rsVars, kpiVars>>
notQmClockVars == <<corrVars, detVars, normVars, thrVars, qthrVars, rsVars, kpiVars>>
notKpiVars == <<corrVars, detVars, normVars, qmVars, thrVars, qthrVars, rsVars, clockVars>>

vars == <<corrVars, detVars, normVars, qmVars, thrVars, qthrVars, rsVars, clockVars, kpiVars>>


Init ==
  /\ CorrInit /\ DetInit /\ NormInit /\ QmInit /\ ThrInit /\ QthrInit /\ RsInit
  /\ ClockInit /\ KpiInit

\* ---- the correlator fed frames in any order
CorrNext == Register /\ UNCHANGED notCorrVars
CorrSpec == Init /\ [][CorrNext]_vars

\* ---- the detectors fed vision and POS events in any order
BarcodeInputs ==
  {Event("Product_recognism", "SCC1", t, [NoData EXCEPT !.predicted_product = "PRD_A",
                                                         !.accuracy = acc]) :
     t \in {0, 4 * Sec}, acc \in {64, 65, 80}}
  \cup {Event("POS_Transactions", "SCC1", t, [NoData EXCEPT !.sku = sku]) :
          t \in {4 * Sec, 20 * Sec, 20 * Sec + 1}, sku \in {"PRD_B", " prd_a", None}}
  \cup {Event("POS_Transactions", "SCC1", 0, [NoData EXCEPT !.sku = "PRD_B"]),
        Event("pos_transactions", "SCC2", 20 * Sec + 1, [NoData EXCEPT !.sku = "PRD_B"]),
        Event("POS_Transactions", None, 4 * Sec, [NoData EXCEPT !.sku = "PRD_B"])}

ProcessBarcodeInput == \E e \in BarcodeInputs : ProcessEvent(e)
BarcodeNext == ProcessBarcodeInput /\ UNCHANGED notDetVars
BarcodeSpec == Init /\ [][BarcodeNext]_vars

\* ---- the detectors fed RFID reads and POS scans in any order
ScannerInputs ==
  {Event("RFID_data", "SCC1", t, [NoData EXCEPT !.epc = r[1], !.sku = r[2], !.location = r[3]]) :
     t \in {0, 25 * Sec, 31 * Sec},
     r \in {<<"EPC1", "PRD_X", "OUT_OF_STORE">>, <<"EPC1", "PRD_X", "exit_gate">>,
            <<"EPC2", "PRD_Y", "EXIT_LANE">>, <<"EPC2", "PRD_X", "SHELF_3">>}}
  \cup {Event("rfid_readings", "SCC1", 30 * Sec,
              [NoData EXCEPT !.epc = "EPC1", !.sku = "PRD_X", !.location = "OUT_OF_STORE"]),
        Event("RFID_data", "SCC1", 0,
              [NoData EXCEPT !.epc = "EPC2", !.location = "UNKNOWN"]),
        Event("RFID_data", "SCC1", 0, [NoData EXCEPT !.epc = "EPC2", !.sku = "PRD_X"])}
  \cup {Event("POS_Transactions", "SCC1", t, [NoData EXCEPT !.sku = "PRD_X"]) :
          t \in {0, 25 * Sec, 31 * Sec}}
  \cup {Event("Product_recognism", "SCC1", 31 * Sec, NoData)}

ProcessScannerInput == \E e \in ScannerInputs : ProcessEvent(e)
ScannerNext == ProcessScannerInput /\ UNCHANGED notDetVars
ScannerSpec == Init /\ [][ScannerNext]_vars

\* ---- the detectors fed weighed POS transactions in any order, with resets
WeightInputs ==
  {Event("POS_Transactions", "SCC1", t, [NoData EXCEPT !.sku = w[1], !.weight_g = w[2]]) :
     t \in {0, 1, Ms},
     w \in {<<"PRD_F_01", 162>>, <<"PRD_F_01", 163>>, <<"PRD_S_02", 58>>,
            <<"PRD_S_02", 59>>, <<"PRD_N_03", 500>>, <<"PRD_F_01", 0>>}}
  \cup {Event("pos_transactions", "SCC2", 0, [NoData EXCEPT !.sku = "PRD_F_01", !.weight_g = 163]),
        Event("POS_Transactions", "SCC1", 0, [NoData EXCEPT !.sku = "PRD_U_09", !.weight_g = 500])}

ProcessWeightInput == \E e \in WeightInputs : ProcessEvent(e)
WeightNext == (ProcessWeightInput \/ ResetAll) /\ UNCHANGED notDetVars
WeightSpec == Init /\ [][WeightNext]_vars

\* ---- the detectors fed events that qualify for an alert under a cooldown
CooldownInputs ==
  {Event("RFID_data", "SCC1", t,
         [NoData EXCEPT !.epc = "EPC1", !.sku = "PRD_X", !.location = "OUT_OF_STORE"]) :
     t \in {0, 25 * Sec, 31 * Sec}}
  \cup {Event("Current_inventory_data", "SCC1", t,
              [NoData EXCEPT !.quantities = << <<"PRD_F_01", 80>> >>]) :
          t \in {0, 10 * Minute - 1, 10 * Minute}}
  \cup {[Event("POS_Transactions", "SCC1", t, NoData) EXCEPT !.status = "System Crash"] :
          t \in {0, 3 * Minute - 1, 3 * Minute}}
  \cup {Event("Queue_monitor", "SCC1", t,
              [NoData EXCEPT !.customer_count = 7, !.average_dwell_time = 130]) :
          t \in {0, 2 * Minute - 1, 2 * Minute}}

ProcessCooldownInput == \E e \in CooldownInputs : ProcessEvent(e)
CooldownNext == ProcessCooldownInput /\ UNCHANGED notDetVars
CooldownSpec == Init /\ [][CooldownNext]_vars

\* ---- the detectors fed inventory snapshots in any order
InventorySnapshots ==
  {<< <<"PRD_F_01", 92>>, <<"PRD_T_04", 71>> >>,
   << <<"PRD_F_01", 88>>, <<"PRD_T_04", 70>> >>,
   << <<"PRD_S_02", 12>>, <<"PRD_Z_99", 500>> >>,
   << <<"PRD_S_02", 13>>, <<"PRD_F_01", 112>> >>,
   << <<"PRD_T_04", 80>>, <<"PRD_F_01", NoNumber>> >>}

InventoryInputs ==
  {Event("Current_inventory_data", "SCC1", t, [NoData EXCEPT !.quantities = q]) :
     t \in {0, 5 * Minute, 10 * Minute}, q \in InventorySnapshots}

ProcessInventoryInput == \E e \in InventoryInputs : ProcessEvent(e)
InventoryNext == ProcessInventoryInput /\ UNCHANGED notDetVars
InventorySpec == Init /\ [][InventoryNext]_vars

\* ---- the detectors fed events that raise an alert of every type
ConfidenceInputs ==
  {Event("Product_recognism", "SCC1", 0, [NoData EXCEPT !.predicted_product = "PRD_A",
                                                         !.accuracy = acc]) :
     acc \in {65, 87, 100}}
  \cup {Event("POS_Transactions", "SCC1", 4 * Sec, [NoData EXCEPT !.sku = "PRD_B"])}
  \cup {Event("POS_Transactions", "SCC1", 4 * Sec,
              [NoData EXCEPT !.sku = "PRD_F_01", !.weight_g = w]) : w \in {163, 900}}
  \cup {Event("RFID_data", "SCC1", 0,
              [NoData EXCEPT !.epc = "EPC1", !.sku = "PRD_X", !.location = "OUT_OF_STORE"])}
  \cup {Event("Current_inventory_data", "SCC1", 0, [NoData EXCEPT !.quantities = q]) :
          q \in {<< <<"PRD_F_01", 80>> >>, << <<"PRD_S_02", 0>>, <<"PRD_N_03", 500>> >>}}
  \cup {Event("Queue_monitor", "SCC1", 0,
              [NoData EXCEPT !.customer_count = q[1], !.average_dwell_time = q[2]]) :
          q \in {<<7, 130>>, <<30, 900>>}}
  \cup {[Event("system_status", "SCC5", 0, NoData) EXCEPT !.status = "System Crash"]}

ProcessConfidenceInput == \E e \in ConfidenceInputs : ProcessEvent(e)
ConfidenceNext == ProcessConfidenceInput /\ UNCHANGED notDetVars
ConfidenceSpec == Init /\ [][ConfidenceNext]_vars

\* ---- the detectors fed status frames of one device in any order
HealthInputs ==
  {[Event("system_status", "SCC5", t, [NoData EXCEPT !.error_code = h[2]]) EXCEPT !.status = h[1]] :
     t \in {0, 1 * Minute, 3 * Minute - 1, 3 * Minute},
     h \in {<<"Scanner Offline", None>>, <<"Active", None>>, <<"Active", "ok">>, <<None, "E42">>}}
  \cup {[Event("system_status", "SCC6", 0, NoData) EXCEPT !.status = "System Crash"]}

ProcessHealthInput == \E e \in HealthInputs : ProcessEvent(e)
HealthNext == ProcessHealthInput /\ UNCHANGED notDetVars
HealthSpec == Init /\ [][HealthNext]_vars

\* ---- the detectors fed queue frames in any order
QueueInputs ==
  {Event("Queue_monitor", "SCC1", t,
         [NoData EXCEPT !.customer_count = q[1], !.average_dwell_time = q[2]]) :
     t \in {0, 2 * Minute - Ms, 2 * Minute, 6 * Minute},
     q \in {<<7, 130>>, <<5, 90>>, <<7, NoNumber>>, <<NoNumber, 130>>}}
  \cup {Event("queue_monitoring", "SCC2", 0,
              [NoData EXCEPT !.customer_count = 6, !.average_dwell_time = 120])}

ProcessQueueInput == \E e \in QueueInputs : ProcessEvent(e)
QueueNext == ProcessQueueInput /\ UNCHANGED notDetVars
QueueSpec == Init /\ [][QueueNext]_vars

\* ---- the detectors fed events whose payload["data"] is no map
MalformedInputs ==
  {MalformedEvent(ds, "SCC1", 0, "Active", shape) :
     ds \in {"POS_Transactions", "RFID_data", "Product_recognism", "Queue_monitor",
             "Current_inventory_data"},
     shape \in {"absent", "null", "other"}}
  \cup {MalformedEvent("POS_Transactions", "SCC1", 21 * Sec, "Scanner Offline", "null"),
        MalformedEvent("POS_Transactions", None, 21 * Sec, "Scanner Offline", "null"),
        Event("Product_recognism", "SCC1", 0,
              [NoData EXCEPT !.predicted_product = "PRD_A", !.accuracy = 80]),
        Event("POS_Transactions", "SCC1", 4 * Sec, [NoData EXCEPT !.sku = "PRD_B"])}

ProcessMalformedInput == \E e \in MalformedInputs : ProcessEvent(e)
MalformedNext == ProcessMalformedInput /\ UNCHANGED notDetVars
MalformedSpec == Init /\ [][MalformedNext]_vars

\* ---- the detectors fed events that leave state in each of them, with resets
ResetInputs ==
  {Event("Product_recognism", "SCC1", 0,
         [NoData EXCEPT !.predicted_product = "PRD_A", !.accuracy = 80]),
   Event("POS_Transactions", "SCC1", 4 * Sec, [NoData EXCEPT !.sku = "PRD_B"]),
   Event("POS_Transactions", "SCC1", 0, [NoData EXCEPT !.sku = "PRD_F_01", !.weight_g = 163]),
   MalformedEvent("Queue_monitor", "SCC1", 0, "Scanner Offline", "other")}
  \cup {Event("RFID_data", "SCC1", t,
              [NoData EXCEPT !.epc = "EPC1", !.sku = "PRD_X", !.location = "OUT_OF_STORE"]) :
          t \in {0, 25 * Sec}}
  \cup {Event("Current_inventory_data", "SCC1", t,
              [NoData EXCEPT !.quantities = << <<"PRD_F_01", 80>> >>]) :
          t \in {0, 10 * Minute - 1}}
  \cup {[Event("system_status", "SCC5", t, NoData) EXCEPT !.status = "System Crash"] :
          t \in {0, 3 * Minute - 1}}
  \cup {Event("Queue_monitor", "SCC1", t,
              [NoData EXCEPT !.customer_count = 7, !.average_dwell_time = 130]) :
          t \in {0, 2 * Minute - 1}}

ProcessResetInput == \E e \in ResetInputs : ProcessEvent(e)
ResetNext ==
  \/ ProcessResetInput /\ UNCHANGED notDetVars
  \/ ResetAll /\ UNCHANGED notDetVars
ResetSpec == Init /\ [][ResetNext]_vars

\* ---- the normalization entry points called on stream frames
NormNext ==
  (NormalizeEvent \/ NormalizePayload \/ NormalizeStreamFrame \/ SentinelToNormalized)
  /\ UNCHANGED notNormVars
NormSpec == Init /\ [][NormNext]_vars

\* ---- the queue metrics service fed observations of two stations in any order
QmPayloads ==
  {QueuePayload(0, 4, 180, 320),
   QueuePayload(1 * Minute, 9, 520, 40),
   QueuePayload(1 * Minute, 9, NoNumber, NoNumber),
   QueuePayload(30 * Sec, 9, 240, 320),
   QueuePayload(3 * Minute, 9, 300, NoNumber),
   QueuePayload(4 * Minute, 0, NoNumber, NoNumber),
   QueuePayload(0, 4, NoNumber, NoNumber)}

QmInputs ==
  {<<"REG1", p>> : p \in QmPayloads}
  \cup {<<"REG2", p>> : p \in {QueuePayload(0, 4, 180, 320),
                               QueuePayload(1 * Minute, 9, 520, 40),
                               QueuePayload(4 * Minute, 0, NoNumber, NoNumber)}}

Ingest == \E in \in QmInputs : IngestObservation(in[1], in[2])

QmNext == (NewService \/ Ingest \/ CalculateQueueHealth) /\ UNCHANGED notQmVars
QmSpec == Init /\ [][QmNext]_vars

\* ---- the correlator and the queue metrics service filling their histories
HistoryCorrInputs ==
  {e \in CorrInputs : /\ e.station_id = "SCC1"
                      /\ \/ e.stream = "POS_Transactions" /\ e.timestamp \in {0, 25 * Sec}
                         \/ e.stream = "RFID_data" /\ e.timestamp = 0}

HistoryQmPayloads ==
  {QueuePayload(0, 4, 180, 320),
   QueuePayload(1 * Minute, 9, 520, 40),
   QueuePayload(4 * Minute, 0, NoNumber, NoNumber)}

HistoryRegister ==
  \E e \in HistoryCorrInputs : RegisterEvent(e.stream, e.station_id, e.timestamp, e.payload)

HistoryIngest == \E payload \in HistoryQmPayloads : IngestObservation("REG1", payload)

HistoryNext ==
  \/ HistoryRegister /\ UNCHANGED notCorrVars
  \/ HistoryIngest /\ UNCHANGED notQmVars
HistorySpec == Init /\ [][HistoryNext]_vars

\* ---- two request threads, each calling register_event once
ConcInputs ==
  {e \in CorrInputs : /\ e.station_id = "SCC1"
                      /\ \/ e.stream = "POS_Transactions" /\ e.timestamp \in {0, 25 * Sec}
                         \/ e.stream = "RFID_data" /\ e.timestamp = 0
                         \/ e.stream = "product_recognition" /\ e.timestamp = 0}

ThreadStart(t) ==
  \E e \in ConcInputs : StartRegister(t, e.stream, e.station_id, e.timestamp, e.payload)

ConcNext ==
  \/ (\E t \in Threads : ThreadStart(t)) /\ UNCHANGED notCorrThrVars
  \/ (\E t \in Threads : CollectStep(t)) /\ UNCHANGED notCorrThrVars
  \/ (\E t \in Threads : CheckCorrelation(t)) /\ UNCHANGED notCorrThrVars
  \/ (\E t \in Threads : AddCorrelation(t)) /\ UNCHANGED notCorrThrVars
  \/ (\E t \in Threads : CheckSuspicious(t)) /\ UNCHANGED notCorrThrVars
  \/ (\E t \in Threads : AddSuspicious(t)) /\ UNCHANGED notCorrThrVars
  \/ (\E t \in Threads : FinishRegister(t)) /\ UNCHANGED notCorrThrVars
ConcSpec == Init /\ [][ConcNext]_vars

\* ---- two request threads calling ingest_observation for the same station
QueueConcPayloads ==
  {QueuePayload(0, 4, 180, 320),
   QueuePayload(1 * Minute, 9, NoNumber, NoNumber),
   QueuePayload(2 * Minute, 2, NoNumber, NoNumber)}

QueueConcNext ==
  \/ (\E t \in Threads, payload \in QueueConcPayloads : ReadPrevious(t, "REG1", payload))
       /\ UNCHANGED notQmQthrVars
  \/ (\E t \in Threads : AppendSnapshot(t)) /\ UNCHANGED notQmQthrVars
  \/ (\E t \in Threads : FinishIngest(t)) /\ UNCHANGED notQmQthrVars
QueueConcSpec == Init /\ [][QueueConcNext]_vars

\* ---- read_stream called once, against a peer that refuses, accepts, sends
\* ---- lines, stalls, fails or closes as it likes
Limits == {<<>>, <<0>>, <<1>>, <<2>>}

Call ==
  \E limit \in Limits, reconnect \in BOOLEAN, max_retries \in 0..MaxRetries,
     strict \in BOOLEAN :
    ReadStream(limit, reconnect, max_retries, strict)

StreamNext ==
  \/ Call /\ UNCHANGED notRsVars
  \/ ConnectAccepted /\ UNCHANGED notRsVars
  \/ ConnectRefused /\ UNCHANGED notRsVars
  \/ RecvTimeout /\ UNCHANGED notRsVars
  \/ RecvClosed /\ UNCHANGED notRsVars
  \/ RecvFailed /\ UNCHANGED notRsVars
  \/ RecvChunk /\ UNCHANGED notRsVars
  \/ ProcessLine /\ UNCHANGED notRsVars
StreamSpec == Init /\ [][StreamNext]_vars

\* ---- the correlator or the queue metrics service fed dated and undated events
UndatedCorrInputs ==
  {[station_id |-> "SCC1", timestamp |-> t, stream |-> st,
    payload |-> [sku |-> "PRD_A", predicted_product |-> None]] :
      t \in {0, 25 * Sec, NoNumber}, st \in {"POS_Transactions", "RFID_data"}}

UndatedQmPayloads ==
  {QueuePayload(t, c, 180, NoNumber) : t \in {0, 1 * Minute, NoNumber}, c \in {4, 9}}

\* a run drives one of the two services
UndatedNext ==
  \/ /\ qmCalls = 0
     /\ \E e \in UndatedCorrInputs, now \in WallClock : RegisterAt(e, now)
     /\ UNCHANGED notCorrClockVars
  \/ /\ corrCalls = 0
     /\ \E p \in UndatedQmPayloads, now \in WallClock : IngestAt("REG1", p, now)
     /\ UNCHANGED notQmClockVars
  \/ /\ corrCalls = 0
     /\ \E t \in {0, NoNumber}, now \in WallClock : IngestUncoercible("REG1", t, now)
     /\ UNCHANGED notQmClockVars
UndatedSpec == Init /\ [][UndatedNext]_vars

\* ---- compute_kpis called on lists of queue events in any order
KpiSamples ==
  {<<"SCC1", 0, 4, 90>>, <<"SCC1", 1 * Minute, 7, 150>>, <<"SCC1", 2 * Minute, 9, 180>>,
   <<"SCC1", 1 * Minute, 2, NoNumber>>, <<"SCC1", 90 * Sec, NoNumber, 200>>,
   <<"SCC2", 0, 5, 150>>, <<"SCC2", 1 * Minute, 6, 165>>, <<None, 0, 3, 60>>}

KpiInputs ==
  {Event("queue_monitoring", s[1], s[2],
         [NoData EXCEPT !.customer_count = s[3], !.average_dwell_time = s[4]]) :
     s \in KpiSamples}
  \cup {Event("Queue_monitor", "SCC1", 0, NoData),
        Event("POS_Transactions", "SCC1", 0, [NoData EXCEPT !.sku = "PRD_A"])}

KpiNext ==
  /\ Len(kpi_events) < MaxKpiEvents
  /\ \E e \in KpiInputs : ComputeKpis(Append(kpi_events, e))
  /\ UNCHANGED notKpiVars
KpiSpec == Init /\ [][KpiNext]_vars

(***************************************************************************)
(* Properties of the correlator                                            *)
(***************************************************************************)
RecordKey(rec) == <<rec.station_id, rec.sku, IsoSeconds(rec.timestamp)>>

NoDuplicateKey(log) ==
  \A i, j \in 1..Len(log) : i < j => RecordKey(log[i]) # RecordKey(log[j])

\* the records the last register_event call returned
NewCorrelatedCount ==
  Len(SelectSeqIdx(lastEvals, {i \in 1..Len(lastEvals) : lastEvals[i].correlation # <<>>}))
NewSuspiciousCount ==
  Len(SelectSeqIdx(lastEvals, {i \in 1..Len(lastEvals) : lastEvals[i].suspicious # <<>>}))

\* the keys emitted as suspicious before the i-th assessment of the last call
SuspiciousKeysBefore(i) ==
  {RecordKey(suspLog[j]) :
     j \in 1..(Len(suspLog) - NewSuspiciousCount + lastEvals[i].susp_before)}

\* C1: over any sequence of register_event calls, at most one
\* correlated_checkout and at most one suspicious_checkout is ever returned
\* for a dedup key (station, sku, POS timestamp truncated to the second).
C1_OneEmissionPerKey ==
  /\ NoDuplicateKey(corrLog)
  /\ NoDuplicateKey(suspLog)

\* C1 witness: a POS event whose key was emitted earlier is re-assessed with a
\* confidence of at least 0.6 and with suspicion reasons, emits nothing, and
\* the earlier records have left the bounded histories.
C1_Witness ==
  \E i \in 1..Len(lastEvals) :
    LET e == lastEvals[i]
    IN /\ 10 * e.confidence >= 6 * ConfUnit
       /\ ~e.has_vision
       /\ e.correlation = <<>>
       /\ e.suspicious = <<>>
       /\ \E j \in 1..Len(corrLog) : RecordKey(corrLog[j]) = e.key
       /\ \E j \in 1..Len(suspLog) : RecordKey(suspLog[j]) = e.key
       /\ \A j \in 1..Len(correlated) : RecordKey(correlated[j]) # e.key
       /\ \A j \in 1..Len(suspicious) : RecordKey(suspicious[j]) # e.key

\* C3: every confidence computed for a POS event lies in [0,1], and a
\* correlated_checkout is returned only at an assessment with confidence >= 0.6.
C3_ConfidenceBound ==
  \A i \in 1..Len(lastEvals) :
    /\ 0 <= lastEvals[i].confidence
    /\ lastEvals[i].confidence <= ConfUnit
    /\ lastEvals[i].correlation # <<>> => 10 * lastEvals[i].confidence >= 6 * ConfUnit

\* C3 witness: a POS event with an RFID and a vision match close in time is
\* assessed at confidence exactly 1.0, the alignment bonus cut to 0.08, and a
\* correlation is returned.
C3_Witness ==
  \E i \in 1..Len(lastEvals) :
    /\ lastEvals[i].has_rfid /\ lastEvals[i].has_vision
    /\ 10 * lastEvals[i].alignment > 8 * window
    /\ lastEvals[i].confidence = ConfUnit
    /\ lastEvals[i].correlation # <<>>

\* the suspicion reasons as the design states them, for the i-th assessment
FiredReasons(e) ==
  (IF ~e.has_rfid THEN {"Missing RFID"} ELSE {})
  \cup (IF ~e.has_vision THEN {"Missing Vision"} ELSE {})
  \cup (IF e.vision_skus # {} /\ e.sku \notin e.vision_skus THEN {"Vision mismatch"} ELSE {})
  \cup (IF e.has_rfid /\ e.sku \notin e.rfid_match_skus THEN {"RFID mismatch"} ELSE {})
  \cup (IF 10 * e.confidence < 5 * ConfUnit THEN {"Low confidence correlation"} ELSE {})

\* C4 (as stated): a suspicious_checkout is returned for a POS event
\* exactly when a reason fires and its key was not emitted as suspicious
\* before; its reasons are never empty and contain every reason that fired.
C4_SuspiciousExactlyWhenReason ==
  \A i \in 1..Len(lastEvals) :
    LET e == lastEvals[i]
    IN /\ e.suspicious # <<>> <=>
            (FiredReasons(e) # {} /\ e.key \notin SuspiciousKeysBefore(i))
       /\ e.suspicious # <<>> =>
            /\ e.suspicious[1].reasons # <<>>
            /\ FiredReasons(e) \subseteq SeqToSet(e.suspicious[1].reasons)

\* C5 (as stated): when the window holds vision observations with a
\* resolvable SKU and none equals the POS SKU, the suspicious_checkout returned
\* for the POS event lists 'Vision mismatch'.
C5_VisionMismatchListed ==
  \A i \in 1..Len(lastEvals) :
    LET e == lastEvals[i]
    IN (e.vision_skus # {} /\ e.sku \notin e.vision_skus /\ e.suspicious # <<>>)
         => "Vision mismatch" \in SeqToSet(e.suspicious[1].reasons)

\* C6 (as stated): after every register_event call with timestamp t,
\* every observation retained in the window has timestamp >= t - W.
C6_WindowInvariant ==
  corrCalls > 0 =>
    \A i \in 1..Len(events) : events[i].timestamp >= lastRegistered.timestamp - window

(***************************************************************************)
(* Properties of the barcode-switching detector (BarcodeSpec)              *)
(***************************************************************************)
BarcodeAlerts(alerts) ==
  SelectSeqIdx(alerts, {i \in 1..Len(alerts) : alerts[i].type = "barcode_switching"})

IsPosWithStringSku(e) == e.dataset \in POS_DATASETS /\ e.data.sku # None

\* C7: each cached vision prediction gives rise to at most one
\* barcode_switching alert (no two alerts stem from the same caching of a
\* prediction), and once a POS event with a string SKU has been evaluated at
\* a station, match or mismatch, no prediction stays cached for that station:
\* a later POS event there can alert only on a prediction cached afterwards.
C7_PredictionConsumed ==
  /\ \A i, j \in 1..Len(alertLog) :
       (i < j /\ alertLog[i].type = "barcode_switching"
              /\ alertLog[j].type = "barcode_switching")
         => alertLog[i].cached_at # alertLog[j].cached_at
  /\ (IsPosWithStringSku(lastEvent) /\ Truthy(lastEvent.station_id))
       => ~DictHas(latest_predictions, lastEvent.station_id)
  /\ \A i \in 1..Len(lastAlerts) :
       lastAlerts[i].type = "barcode_switching" => lastAlerts[i].cached_at < detCalls

\* a mismatching POS event within the TTL of a prediction that an earlier POS
\* event already alerted on returns nothing
C7_Witness ==
  /\ IsPosWithStringSku(lastEvent)
  /\ BarcodeAlerts(lastAlerts) = <<>>
  /\ \E i \in 1..Len(alertLog) :
       /\ alertLog[i].type = "barcode_switching"
       /\ alertLog[i].station_id = lastEvent.station_id
       /\ ~ItemsMatch(alertLog[i].evidence.predicted_product, lastEvent.data.sku)
       /\ IsoMillis(lastEvent.timestamp) - alertLog[i].timestamp <= 16 * 1000
       /\ IsoMillis(lastEvent.timestamp) >= alertLog[i].timestamp

\* a SKU with case and surrounding whitespace ignored
CanonicalSku(sku) ==
  CASE sku \in {"PRD_A", "prd_a", " prd_a", "PRD_A "} -> "a"
    [] sku \in {"PRD_B", " PRD_B"} -> "b"
    [] OTHER -> sku

\* the step is a process_event call
IsProcessStep == detCalls' = detCalls + 1

C8_Step ==
  LET e == lastEvent'
      S == e.station_id
      alerts == BarcodeAlerts(lastAlerts')
      cached == Truthy(S) /\ DictHas(latest_predictions, S)
      pred == latest_predictions[S]
  IN /\ e.dataset \in VISION_DATASETS => alerts = <<>>
     /\ (IsPosWithStringSku(e) /\ cached /\ e.timestamp - pred.timestamp <= 20 * Sec)
          => IF CanonicalSku(pred.sku) # CanonicalSku(e.data.sku)
             THEN /\ Len(alerts) = 1
                  /\ alerts[1].evidence.predicted_product = pred.sku
                  /\ alerts[1].evidence.scanned_sku = e.data.sku
             ELSE alerts = <<>>
     /\ (e.dataset \in POS_DATASETS /\ cached /\ e.timestamp - pred.timestamp > 20 * Sec)
          => alerts = <<>>

\* C8: when a prediction is cached for station S (it always has accuracy
\* >= 0.65: none below is ever cached) and a POS event at S with a string SKU
\* is stamped no more than 20 s after it, the event returns exactly one
\* barcode_switching alert naming the predicted and the scanned SKU if the two
\* differ with case and surrounding whitespace ignored, and none if they are
\* equal; a POS event stamped more than 20 s after the prediction returns
\* none; a vision event returns none.
C8_BarcodeTrigger ==
  /\ [](\A S \in DOMAIN latest_predictions :
          latest_predictions[S].accuracy >= 65)
  /\ [][IsProcessStep => C8_Step]_vars

\* a POS event exactly 20 s after the cached prediction has alerted, and a
\* prediction of accuracy 0.64 was offered before
C8_Witness ==
  /\ IsPosWithStringSku(lastEvent)
  /\ Len(BarcodeAlerts(lastAlerts)) = 1
  /\ lastEvent.timestamp = 20 * Sec
  /\ BarcodeAlerts(lastAlerts)[1].predicted_at = 0
  /\ BarcodeAlerts(lastAlerts)[1].evidence.scanned_sku = "PRD_B"

(***************************************************************************)
(* Properties of the cooldowns (CooldownSpec)                              *)
(***************************************************************************)
\* the cooldown of an alert type, in milliseconds
CooldownMs(type) ==
  CASE type = "scanner_avoidance" -> 30 * 1000
    [] type = "inventory_discrepancy" -> 10 * 60 * 1000
    [] type = "system_error" -> 3 * 60 * 1000
    [] type \in {"queue_spike", "extended_wait"} -> 2 * 60 * 1000

\* the key an alert's cooldown is kept under
CooldownKey(alert) ==
  CASE alert.type = "scanner_avoidance" -> <<alert.evidence.epc>>
    [] alert.type = "inventory_discrepancy" -> <<alert.evidence.sku>>
    [] alert.type = "system_error" -> <<alert.evidence.dataset, alert.station_id>>
    [] alert.type \in {"queue_spike", "extended_wait"} -> <<alert.station_id>>

HasCooldown(alert) ==
  alert.type \in {"scanner_avoidance", "inventory_discrepancy", "system_error",
                  "queue_spike", "extended_wait"}

\* C2 (as stated): any two alerts of one cooldown-governed type emitted for
\* the same key carry timestamps at least the cooldown apart (30 s per EPC,
\* 10 min per SKU, 3 min per (dataset, station), 2 min per station).
C2_AlertsCooldownApart ==
  \A i, j \in 1..Len(alertLog) :
    (i < j /\ HasCooldown(alertLog[i]) /\ alertLog[i].type = alertLog[j].type
           /\ CooldownKey(alertLog[i]) = CooldownKey(alertLog[j]))
      => Abs(alertLog[j].timestamp - alertLog[i].timestamp) >= CooldownMs(alertLog[i].type)

(***************************************************************************)
(* Properties of the scanner-avoidance detector (ScannerSpec)              *)
(***************************************************************************)
ScannerAlerts(alerts) ==
  SelectSeqIdx(alerts, {i \in 1..Len(alerts) : alerts[i].type = "scanner_avoidance"})

\* a location name in upper case
CanonicalLocation(location) ==
  IF location = "exit_gate" THEN "EXIT_GATE" ELSE location

C9_Step ==
  LET e == lastEvent'
      d == e.data
      now == e.timestamp
      alerts == ScannerAlerts(lastAlerts')
      suspicious_read ==
        /\ e.dataset \in RFID_DATASETS
        /\ d.epc # None
        /\ d.location # None
        /\ CanonicalLocation(d.location) \in
             {"EXIT_GATE", "EXIT_LANE", "CUSTOMER_EXIT", "OUT_OF_STORE",
              "BAGGING_AREA_BREACH", "UNKNOWN"}
      \* a POS scan of the read's SKU is on record, stamped within the 25 s
      \* before the read
      recent_pos == /\ DictHas(recent_pos_by_sku, d.sku)
                    /\ now - recent_pos_by_sku[d.sku] >= 0
                    /\ now - recent_pos_by_sku[d.sku] <= 25 * Sec
      in_cooldown == /\ DictHas(alert_cooldown, d.epc)
                     /\ now - alert_cooldown[d.epc] <= 30 * Sec
  IN /\ (suspicious_read /\ ~recent_pos /\ ~in_cooldown) => Len(alerts) = 1
     /\ (suspicious_read /\ recent_pos) => alerts = <<>>
     /\ ~suspicious_read => alerts = <<>>

\* C9 (as stated): an RFID read with a string EPC at a suspicious location
\* returns exactly one scanner_avoidance alert when no POS scan of the same
\* SKU is recorded within the preceding 25 s and the EPC is not in cooldown,
\* and none when such a scan is recorded; a read anywhere else and a POS
\* event return none.
C9_ScannerTrigger == [][IsProcessStep => C9_Step]_vars

(***************************************************************************)
(* Properties of the weight-discrepancy detector (WeightSpec)              *)
(***************************************************************************)
WeightAlertsFor(alerts, key) ==
  SelectSeqIdx(alerts, {i \in 1..Len(alerts) :
    /\ alerts[i].type = "weight_discrepancy"
    /\ <<alerts[i].station_id, alerts[i].timestamp, alerts[i].evidence.sku>> = key})

\* the transaction carries a measured weight (a reading of 0 is none to the
\* detector) and the catalog an expected one
HasBothWeights(e) ==
  /\ e.dataset \in POS_DATASETS
  /\ e.data.weight_g > 0
  /\ e.data.sku \in DOMAIN Catalog
  /\ Catalog[e.data.sku].expected_weight_g >= 0

\* |measured - expected| > max(8 g, 8% of expected)
ExceedsTolerance(e) ==
  /\ HasBothWeights(e)
  /\ LET x == Catalog[e.data.sku].expected_weight_g
     IN 100 * Abs(e.data.weight_g - x) > Max2(100 * 8, 8 * x)

ExceedingBefore(n, key) ==
  {i \in 1..(n - 1) : ExceedsTolerance(posLog[i]) /\ WeightKey(posLog[i]) = key}

\* C10: since the last reset, every processed POS transaction whose measured
\* weight is off the expected one by more than max(8 g, 8% of expected) has
\* exactly one weight_discrepancy alert for its (station, millisecond, sku),
\* however often it was processed: the first processing returned the alert,
\* every later one returned none.  A transaction within tolerance returns no
\* alert, and only transactions out of tolerance are recorded as flagged.
C10_WeightIdempotence ==
  /\ \A i \in 1..Len(posLog) :
       ExceedsTolerance(posLog[i])
         => Len(WeightAlertsFor(alertLog, WeightKey(posLog[i]))) = 1
  /\ ExceedsTolerance(lastEvent)
       => Len(WeightAlertsFor(lastAlerts, WeightKey(lastEvent)))
            = IF ExceedingBefore(Len(posLog), WeightKey(lastEvent)) = {} THEN 1 ELSE 0
  /\ (HasBothWeights(lastEvent) /\ ~ExceedsTolerance(lastEvent))
       => \A i \in 1..Len(lastAlerts) : lastAlerts[i].type # "weight_discrepancy"
  /\ flagged_transactions
       = {WeightKey(posLog[i]) : i \in {j \in 1..Len(posLog) : ExceedsTolerance(posLog[j])}}

\* an out-of-tolerance transaction processed for the second time since the
\* last reset has returned nothing, its one alert standing
C10_Witness ==
  /\ ExceedsTolerance(lastEvent)
  /\ lastAlerts = <<>>
  /\ \E i \in 1..(Len(posLog) - 1) : posLog[i] = lastEvent
  /\ Len(WeightAlertsFor(alertLog, WeightKey(lastEvent))) = 1
  /\ detCalls > Len(posLog)

(***************************************************************************)
(* Properties of the system-health detector (HealthSpec)                   *)
(***************************************************************************)
SystemAlerts(alerts) ==
  SelectSeqIdx(alerts, {i \in 1..Len(alerts) : alerts[i].type = "system_error"})

\* the event reports an error: its status names one, or it carries an error
\* code other than ok
ReportsError(e) ==
  \/ e.status \in {"error", "Scanner Offline", "System Crash", "Read Error"}
  \/ (e.status = None /\ e.data.status \in {"error", "Scanner Offline", "System Crash", "Read Error"})
  \/ (e.data.error_code # None /\ e.data.error_code \notin {"ok", "OK"})

C11_Step ==
  LET e == lastEvent'
      key == <<e.dataset, e.station_id>>
      alerts == SystemAlerts(lastAlerts')
      alerted == DictHas(health_state, key) /\ health_state[key].last_alert # NoNumber
      t == health_state[key].last_alert
  IN /\ (ReportsError(e) /\ alerted /\ e.timestamp < t + 3 * Minute) => alerts = <<>>
     /\ (ReportsError(e) /\ alerted /\ e.timestamp >= t + 3 * Minute) => Len(alerts) = 1
     /\ ~ReportsError(e) => alerts = <<>>

\* C11 (as stated): t being the time of the last system_error alert of a
\* (dataset, station) key, an event of that key that reports an error returns
\* no alert when stamped before t + 3 min, whether or not a recovery status
\* was seen since, and returns a system_error alert when stamped at or after
\* t + 3 min; an event that reports no error returns no alert.
C11_HealthCooldown == [][IsProcessStep => C11_Step]_vars

(***************************************************************************)
(* Properties of the queue-health detector (QueueSpec)                     *)
(***************************************************************************)
AlertsOfType(alerts, type) ==
  SelectSeqIdx(alerts, {i \in 1..Len(alerts) : alerts[i].type = type})

\* an alert of the type was returned for the station, stamped within the
\* 2 minutes before now (exclusive of now - 2 min)
EmittedWithinPrevious2Min(type, station_id, now) ==
  \E i \in 1..Len(alertLog) :
    /\ alertLog[i].type = type
    /\ alertLog[i].station_id = station_id
    /\ IsoMillis(now) - alertLog[i].timestamp >= 0
    /\ IsoMillis(now) - alertLog[i].timestamp < 2 * 60 * 1000

C12_Step ==
  LET e == lastEvent'
      st == e.station_id
      q == e.data.customer_count
      spikes == AlertsOfType(lastAlerts', "queue_spike")
      waits == AlertsOfType(lastAlerts', "extended_wait")
      samples == recent_waits'[st]
  IN e.dataset \in QUEUE_DATASETS =>
       /\ Len(spikes) = IF q # NoNumber /\ q >= 6
                           /\ ~EmittedWithinPrevious2Min("queue_spike", st, e.timestamp)
                        THEN 1 ELSE 0
       /\ Len(waits) = IF e.data.average_dwell_time # NoNumber
                          /\ Len(samples) >= 3
                          /\ SumValues(samples) >= 120 * Len(samples)
                          /\ ~EmittedWithinPrevious2Min("extended_wait", st, e.timestamp)
                       THEN 1 ELSE 0

\* C12 (as stated): a queue event with a customer_count q returns a
\* queue_spike alert iff q >= 6 and no queue_spike was returned for the
\* station within the previous 2 minutes; one with a dwell time returns an
\* extended_wait alert iff the station's window then holds at least 3 dwell
\* samples of mean >= 120 s and no extended_wait was returned for the station
\* within the previous 2 minutes; the two cooldowns are independent.
C12_QueueRules == [][IsProcessStep => C12_Step]_vars

(***************************************************************************)
(* Properties of the detectors on malformed events (MalformedSpec)         *)
(***************************************************************************)
\* C13 (as stated): whatever the event processed, payload "data" absent, null
\* or no map included, none of the six detectors raises on it.
C13_DetectorsNeverRaise ==
  /\ ~BarcodeRaises(lastEvent)
  /\ ~ScannerRaises(lastEvent)
  /\ ~WeightRaises(lastEvent)
  /\ ~SystemRaises(lastEvent)
  /\ ~QueueRaises(lastEvent)
  /\ ~InventoryRaises(lastEvent)

\* the alerts of the system-health detector, which never raises, on the event
SystemAlertsOn(event) == DetectSystemHealth(health_state, event).alerts

C14_Step ==
  LET e == lastEvent'
  IN (BarcodeRaises(e) \/ ScannerRaises(e) \/ WeightRaises(e) \/ QueueRaises(e))
       => /\ lastRaised' = None
          /\ \A i \in 1..Len(SystemAlertsOn(e)) :
               \E j \in 1..Len(lastAlerts') : lastAlerts'[j] = SystemAlertsOn(e)[i]
          /\ health_state' = DetectSystemHealth(health_state, e).hs

\* C14 (as stated): when one detector raises on the event given to
\* process_event, the call still returns: the other detectors process the
\* event (the system-health detector updates its state) and their alerts are
\* returned.
C14_DetectorIsolation == [][IsProcessStep => C14_Step]_vars

\* ------------------------------------------------------------------ C15
\* C15: every event or record an entry point produces (normalize_payload,
\* normalize_stream_frame, sentinel_to_normalized, normalize_event) carries one
\* of the five canonical dataset names; canonical_dataset maps every alias to a
\* canonical name and every canonical name to itself; a frame whose dataset is
\* not an alias produces an error and no event.
Produced(result) == result.outcome \in {"event", "record"}

C15_CanonicalDataset ==
  /\ \A name \in DOMAIN ALIASES : canonical_dataset(name) \in CANONICAL_DATASETS
  /\ \A name \in CANONICAL_DATASETS : canonical_dataset(name) = name
  /\ canonical_dataset("foo") = "ValueError"
  /\ \A i \in 1..Len(records) :
       /\ Produced(records[i]) => records[i].dataset \in CANONICAL_DATASETS
       /\ records[i].given \notin DOMAIN ALIASES => ~Produced(records[i])

\* the same for the three entry points that return a NormalizedRecord
C15_RecordsCanonical ==
  \A i \in 1..Len(records) :
    records[i].entry # "normalize_event" =>
      /\ Produced(records[i]) => records[i].dataset = canonical_dataset(records[i].given)
      /\ records[i].given \notin DOMAIN ALIASES => ~Produced(records[i])

\* ------------------------------------------------------------------ C16
\* C16: the health score returned by ingest_observation / calculate_queue_health
\* is always within [0, 100] and the status follows from the returned score:
\* optimal from 85, stable from 70, at-risk from 50, critical below; a station
\* with no history reports score 100 and status "unknown".
C16_ScoreAndStatus ==
  /\ lastHealth.health_score >= 0
  /\ lastHealth.health_score <= 100
  /\ IF history[lastHealth.station_id] = <<>>
     THEN lastHealth.health_score = 100 /\ lastHealth.status = "unknown"
     ELSE /\ lastHealth.health_score >= 85 => lastHealth.status = "optimal"
          /\ lastHealth.health_score \in 70..84 => lastHealth.status = "stable"
          /\ lastHealth.health_score \in 50..69 => lastHealth.status = "at-risk"
          /\ lastHealth.health_score < 50 => lastHealth.status = "critical"

\* a full history whose latest snapshot scores 1: every penalty applies
C16_Witness ==
  /\ lastIngest # <<>>
  /\ Len(history[lastHealth.station_id]) = history_length
  /\ lastHealth.health_score = 1
  /\ lastHealth.status = "critical"

\* ------------------------------------------------------------------ C17
IsIngestStep == qmCalls' = qmCalls + 1

HasAlert(health, type) == \E i \in 1..Len(health.alerts) : health.alerts[i] = type

\* the incidents the step appended
NewIncidentTypes ==
  {incidentLog'[i].type : i \in (Len(incidentLog) + 1)..Len(incidentLog')}

\* the scenario: target 4, the station holds one snapshot with 4 customers, and
\* an observation with 9 customers stamped at most one minute later is ingested
C17_Scenario ==
  /\ IsIngestStep
  /\ target_customers_per_station = 4
  /\ Len(history[lastIngest'[1].station_id]) = 1
  /\ history[lastIngest'[1].station_id][1].customer_count = 4
  /\ lastIngest'[1].payload.customer_count = 9
  /\ lastIngest'[1].payload.timestamp >= history[lastIngest'[1].station_id][1].timestamp
  /\ lastIngest'[1].payload.timestamp
       <= history[lastIngest'[1].station_id][1].timestamp + 1 * Minute

C17_AlertsAndIncident ==
  /\ HasAlert(lastHealth', "queue_congestion")
  /\ HasAlert(lastHealth', "queue_growth")
  /\ "queue_surge" \in NewIncidentTypes

ActiveStations == {s \in QmStations : history[s] # <<>>}

TotalLatest ==
  (IF history["REG1"] = <<>> THEN 0
   ELSE history["REG1"][Len(history["REG1"])].customer_count)
  + (IF history["REG2"] = <<>> THEN 0
     ELSE history["REG2"][Len(history["REG2"])].customer_count)

\* ceil(TotalLatest / target)
CeilOfTotal ==
  CHOOSE k \in 0..TotalLatest :
    /\ k * target_customers_per_station >= TotalLatest
    /\ (k - 1) * target_customers_per_station < TotalLatest

RecommendationFor(required, active) ==
  IF required > active THEN <<"Open", required - active, "additional station(s)">>
  ELSE IF required < active
  THEN <<"Idle", active - required, "station(s) if demand stays low">>
  ELSE <<"Maintain current staffing">>

\* C18 (as stated): required_stations = ceil(total latest customer_count /
\* target), active_stations = the number of stations with a snapshot, and the
\* recommendation compares the two.
C18_StaffAllocationAsStated ==
  /\ calculate_staff_allocation.required_stations = CeilOfTotal
  /\ calculate_staff_allocation.active_stations = Cardinality(ActiveStations)
  /\ calculate_staff_allocation.recommendation
       = RecommendationFor(CeilOfTotal, Cardinality(ActiveStations))

\* C18 (amended): required_stations = max(1, ceil(total latest customer_count /
\* target)), active_stations = max(1, number of stations with a snapshot), and
\* the recommendation is "Open N additional station(s)" with N = required -
\* active when required > active, "Idle N station(s)..." with N = active -
\* required when required < active, "Maintain current staffing" when equal.
C18_StaffAllocationAtLeastOne ==
  /\ calculate_staff_allocation.required_stations = Max2(1, CeilOfTotal)
  /\ calculate_staff_allocation.active_stations = Max2(1, Cardinality(ActiveStations))
  /\ calculate_staff_allocation.recommendation
       = RecommendationFor(Max2(1, CeilOfTotal), Max2(1, Cardinality(ActiveStations)))

\* two stations with 9 customers each at target 4: five stations required
C18_Witness ==
  /\ target_customers_per_station = 4
  /\ Cardinality(ActiveStations) = 2
  /\ TotalLatest = 18
  /\ calculate_staff_allocation.required_stations = 5
  /\ calculate_staff_allocation.recommendation = <<"Open", 3, "additional station(s)">>

\* ------------------------------------------------------------------ C19
\* the n most recent entries of a log, in insertion order
MostRecent(log, n) ==
  IF Len(log) <= n THEN log ELSE [i \in 1..n |-> log[Len(log) - n + i]]

BothReturned == \A t \in Threads : returned[t] # <<>>

EmptyCorrelator ==
  [events |-> <<>>, correlated |-> <<>>, suspicious |-> <<>>,
   seen_correlations |-> {}, seen_suspicious |-> {}]

\* what the correlator holds and what the two calls returned, were the call of
\* thread `first` run to its end before the call of thread `second`
SerialOutcome(first, second) ==
  LET r1 == SerialRegister(EmptyCorrelator, called[first][1])
      r2 == SerialRegister(r1.st, called[second][1])
  IN  [window |-> SeqToSet(r2.st.events),
       correlated |-> r2.st.correlated,
       suspicious |-> r2.st.suspicious,
       seen_correlations |-> r2.st.seen_correlations,
       seen_suspicious |-> r2.st.seen_suspicious,
       returned |-> [t \in Threads |-> IF t = first THEN <<r1.ret>> ELSE <<r2.ret>>]]

ObservedOutcome ==
  [window |-> SeqToSet(events),
   correlated |-> correlated,
   suspicious |-> suspicious,
   seen_correlations |-> seen_correlations,
   seen_suspicious |-> seen_suspicious,
   returned |-> returned]

EmittedKeys(log) == [i \in 1..Len(log) |-> <<log[i].station_id, log[i].sku,
                                             IsoSeconds(log[i].timestamp)>>]

NoKeyTwice(log) ==
  \A i, j \in 1..Len(log) : i # j => EmittedKeys(log)[i] # EmittedKeys(log)[j]

\* C20: once two concurrent register_event calls have both returned, the
\* window entries, the histories, the dedup sets and the returned lists are
\* those of one of the two serial orders of the calls, and no dedup key has
\* been emitted twice.
C20_SerializedAccess ==
  /\ NoKeyTwice(corrLog)
  /\ NoKeyTwice(suspLog)
  /\ BothReturned =>
       \/ ObservedOutcome = SerialOutcome(1, 2)
       \/ ObservedOutcome = SerialOutcome(2, 1)

\* the calls as atomic steps: every thread that has started has also finished
RunsSerially == \A t \in Threads : called[t] # <<>> => returned[t] # <<>>

\* ------------------------------------------------------------------ C21
\* the service rate ingest_observation derives for a payload without one, from
\* the snapshot before it (hundredths of a customer per minute)
DerivedRate(earlier, later) ==
  (Max2(earlier.customer_count - later.customer_count, 0) * 6000 * Sec)
    \div Max2(later.timestamp - earlier.timestamp, Sec)

\* C21: under concurrent ingest_observation calls for one station, every
\* snapshot appended after another has delta_customers = its customer_count
\* minus that of the snapshot immediately before it, and a derived service_rate
\* is computed against that same snapshot, as if the calls ran one at a time.
C21_AdjacentSnapshots ==
  \A k \in 2..Len(snapshotLog["REG1"]) :
    LET earlier == snapshotLog["REG1"][k - 1]
        later == snapshotLog["REG1"][k]
    IN  /\ later.delta_customers = later.customer_count - earlier.customer_count
        /\ ingested[k].service_rate = NoNumber =>
             later.service_rate = DerivedRate(earlier, later)

\* no thread is inside ingest_observation while another one starts
IngestsRunSerially ==
  Cardinality({t \in Threads : qthr[t].pc # "idle"}) <= 1

\* ---------------------------------------------------------------- C22
AllRefused == connLog # <<>> /\ \A i \in 1..Len(connLog) : connLog[i] = "refused"

RECURSIVE Doubled(_, _)
Doubled(x, times) == IF times <= 0 THEN x ELSE Doubled(x + x, times - 1)

\* C22: against a peer that refuses every connection, with reconnect enabled
\* the k-th failed attempt is followed by a sleep of backoff_factor * 2^(k-1),
\* nothing is raised while at most max_retries attempts have failed, and
\* ConnectionError is raised at attempt max_retries + 1, which is the last;
\* with reconnect disabled ConnectionError is raised at the first failure.
C22_BoundedReconnect ==
  AllRefused =>
    IF rs_args.reconnect
    THEN /\ Len(connLog) <= rs_args.max_retries + 1
         /\ Len(sleeps) = Min2(Len(connLog), rs_args.max_retries)
         /\ \A k \in 1..Len(sleeps) : sleeps[k] = Doubled(500 * Ms, k - 1)
         /\ Len(connLog) <= rs_args.max_retries =>
              rs_pc = "connect" /\ rs_raised = None
         /\ Len(connLog) = rs_args.max_retries + 1 =>
              rs_pc = "raised" /\ rs_raised = "ConnectionError"
    ELSE /\ Len(connLog) = 1
         /\ sleeps = <<>>
         /\ rs_pc = "raised"
         /\ rs_raised = "ConnectionError"

C22_Witness ==
  /\ AllRefused
  /\ rs_args.reconnect
  /\ rs_args.max_retries = MaxRetries
  /\ Len(connLog) = MaxRetries + 1
  /\ Len(sleeps) = MaxRetries
  /\ rs_pc = "raised"

\* ---------------------------------------------------------------- C23
\* the line about to be processed fails UTF-8 decoding or JSON parsing
MalformedLineMet ==
  /\ rs_pc = "recv"
  /\ buf # <<>>
  /\ buf[1].kind \in {"bad_utf8", "bad_json"}

ParsingError(kind) == IF kind = "bad_utf8" THEN "UnicodeDecodeError" ELSE "JSONDecodeError"

\* C23: with strict=False a malformed line is skipped and reading goes on with
\* the next line on the same connection; with strict=True the decoding or
\* parsing error reaches the caller when the line is met, and is not treated
\* as a connection failure (no backoff sleep, no reconnect).
C23_StrictMode ==
  [][MalformedLineMet =>
       IF rs_args.strict
       THEN /\ rs_pc' = "raised"
            /\ rs_raised' = ParsingError(buf[1].kind)
            /\ sleeps' = sleeps
       ELSE /\ rs_pc' = "recv"
            /\ buf' = Tail(buf)
            /\ UNCHANGED <<yielded, sleeps, connLog, attempts, rs_raised>>]_vars

\* the lenient half of C23 alone
C23_LenientSkips ==
  [][MalformedLineMet /\ ~rs_args.strict =>
       /\ rs_pc' = "recv"
       /\ buf' = Tail(buf)
       /\ UNCHANGED <<yielded, sleeps, connLog, attempts, rs_raised>>]_vars

\* ---------------------------------------------------------------- C24
\* yielded holds JSON lines that were received, in the order of receipt
InOrderReceived ==
  /\ \A i \in 1..Len(yielded) :
       \E j \in 1..Len(received) :
         received[j].kind = "json" /\ received[j].seq = yielded[i]
  /\ \A i \in 1..Len(yielded), j \in 1..Len(yielded) :
       i < j => yielded[i] < yielded[j]

LimitRespected(limit) ==
  /\ Len(yielded) <= limit
  /\ yielded # <<>> /\ Len(yielded) >= limit => rs_pc = "returned"

\* C24: for every limit >= 0 the yielded messages are received JSON lines in
\* the order of receipt, there are never more than limit of them (reconnects
\* included), and the generator has returned once limit have been yielded.
C24_MessageLimit ==
  /\ InOrderReceived
  /\ rs_args.limit # <<>> => LimitRespected(rs_args.limit[1])

\* the same for limits of at least 1
C24_PositiveLimit ==
  /\ InOrderReceived
  /\ rs_args.limit # <<>> /\ rs_args.limit # <<0>> => LimitRespected(rs_args.limit[1])

\* a limit of 2 reached on a second connection
C24_LimitAcrossReconnect ==
  /\ rs_args.limit = <<2>>
  /\ Len(connLog) >= 2
  /\ Len(yielded) = 2
  /\ rs_pc = "returned"

\* ---------------------------------------------------------------- C25
\* the detectors as they are after import
FreshState ==
  [preds |-> EmptyDict,
   st |-> ScannerState(EmptyDict, EmptyDict, EmptyDict),
   flagged |-> {},
   hs |-> EmptyDict,
   qs |-> QueueState(EmptyDict, EmptyDict, EmptyDict, EmptyDict),
   cache |-> <<>>,
   last |-> EmptyDict,
   alerts |-> <<>>,
   raised |-> None]

\* the alerts process_event returns for each event of a sequence, one after
\* the other, starting from freshly initialised detectors
RECURSIVE FreshRun(_)
FreshRun(evs) ==
  IF evs = <<>> THEN [x |-> FreshState, log |-> <<>>]
  ELSE LET before == FreshRun(SubSeq(evs, 1, Len(evs) - 1))
           r == ProcessEventFrom([before.x EXCEPT !.alerts = <<>>, !.raised = None],
                                 evs[Len(evs)], 0)
       IN  [x |-> r, log |-> before.log \o (IF r.raised = None THEN r.alerts ELSE <<>>)]

\* an alert as the caller sees it
Visible(alert) ==
  IF alert.type = "barcode_switching" THEN [alert EXCEPT !.cached_at = 0] ELSE alert

VisibleAlerts(log) == [i \in 1..Len(log) |-> Visible(log[i])]

\* C25: the alerts returned since the last reset_all are exactly the alerts
\* the same events yield on freshly initialised detectors, whatever was
\* processed before the reset.
C25_ResetRestoresInitialState ==
  VisibleAlerts(alertLog) = VisibleAlerts(FreshRun(sinceReset).log)

\* events were processed, the detectors were reset, and an alert was raised after
C25_Witness ==
  /\ sinceReset # <<>>
  /\ detCalls >= Len(sinceReset) + 2
  /\ lastAlerts # <<>>

\* ---------------------------------------------------------------- C26
IsRegisterStep == corrCalls' = corrCalls + 1

\* the call of this step was given no parseable timestamp
UndatedStep == clock_read' # <<>>

\* C26: an observation whose timestamp is missing or unparseable is dropped:
\* register_event leaves the window, the histories and the dedup sets as they
\* were and emits nothing, and ingest_observation leaves the station history
\* and the incident history as they were, as it does when customer_count or
\* the dwell time cannot be coerced to a number.
C26_MalformedDropped ==
  [][/\ IsRegisterStep /\ UndatedStep =>
          /\ UNCHANGED <<events, correlated, suspicious, seen_correlations,
                         seen_suspicious>>
          /\ corrLog' = corrLog /\ suspLog' = suspLog
     /\ IsIngestStep /\ (UndatedStep \/ lastIngest' = <<>>) =>
          UNCHANGED <<history, alert_history>>]_vars

\* the part of C26 about values that cannot be coerced
C26_UncoercibleDropped ==
  [][IsIngestStep /\ lastIngest' = <<>> => UNCHANGED <<history, alert_history>>]_vars

\* an undated event was stored in the window under the wall-clock reading
C26_UndatedStored ==
  /\ clock_read # <<>>
  /\ events # <<>>
  /\ events[Len(events)].timestamp = clock_read[1]

\* ---------------------------------------------------------------- C27
\* exactly two events have been registered, a POS event and an RFID read of
\* the same SKU at the same station, not more than the window apart
PosAndRfidRegistered ==
  /\ corrCalls = 2
  /\ Len(events) = 2
  /\ {events[1].stream, events[2].stream} = {"pos_transactions", "rfid_data"}
  /\ events[1].station_id = events[2].station_id
  /\ ExtractSku(events[1].payload) # None
  /\ ExtractSku(events[1].payload) = ExtractSku(events[2].payload)
  /\ Abs(events[1].timestamp - events[2].timestamp) <= window_seconds * Sec

\* what is emitted when the two events are registered in the other order
OtherOrder ==
  LET r1 == SerialRegister(EmptyCorrelator, events[2])
      r2 == SerialRegister(r1.st, events[1])
  IN  [correlated |-> SeqToSet(r1.ret.correlations \o r2.ret.correlations),
       suspicious |-> SeqToSet(r1.ret.suspicious \o r2.ret.suspicious)]

\* C27: for a POS event and an RFID read of the same SKU at the same station
\* with timestamps within W of each other, the correlated_checkout and
\* suspicious_checkout records emitted for the POS key are the same whichever
\* of the two is registered first.
C27_ArrivalOrder ==
  PosAndRfidRegistered =>
    /\ SeqToSet(corrLog) = OtherOrder.correlated
    /\ SeqToSet(suspLog) = OtherOrder.suspicious

\* ---------------------------------------------------------------- C28
AtStation1(e) == e.station_id = "SCC1"

IsBarcodeAlertAtStation1(a) == a.type = "barcode_switching" /\ a.station_id = "SCC1"

ConcernsEpc1(e) ==
  \/ e.dataset \in RFID_DATASETS /\ e.data.epc = "EPC1"
  \/ e.dataset \in POS_DATASETS /\ e.data.sku = "PRD_X"

IsScannerAlertForEpc1(a) == a.type = "scanner_avoidance" /\ a.evidence.epc = "EPC1"

\* C28 (barcode switching): the alerts raised for station SCC1 are those the
\* events of SCC1 alone raise, in the same order, whatever events of other
\* stations were processed in between.
C28_PerStationIndependence ==
  VisibleAlerts(SelectSeq(alertLog, IsBarcodeAlertAtStation1))
    = VisibleAlerts(SelectSeq(FreshRun(SelectSeq(sinceReset, AtStation1)).log,
                              IsBarcodeAlertAtStation1))

\* the scanner-avoidance half of C28: the alerts raised for EPC1 are those
\* the RFID reads of EPC1 and the POS scans of its SKU alone raise
C28_PerEpcIndependence ==
  SelectSeq(alertLog, IsScannerAlertForEpc1)
    = SelectSeq(FreshRun(SelectSeq(sinceReset, ConcernsEpc1)).log, IsScannerAlertForEpc1)

\* ---------------------------------------------------------------- C29
Perms(n) == {f \in [1..n -> 1..n] : \A i, j \in 1..n : i # j => f[i] # f[j]}

Permuted(xs, f) == [i \in 1..Len(xs) |-> xs[f[i]]]

\* the queue samples of a station among the supplied events
SamplesAt(station) ==
  LET idx == {i \in 1..Len(kpi_events) :
                IsKpiSample(kpi_events[i]) /\ StationKey(kpi_events[i]) = station}
      kept == SelectSeqIdx(kpi_events, idx)
  IN  [i \in 1..Len(kept) |-> KpiSample(kept[i])]

QueuesOf(samples) == Defined([i \in 1..Len(samples) |-> samples[i].q])
WaitsOf(samples) == Defined([i \in 1..Len(samples) |-> samples[i].w])

IsSortedByTimestamp(samples) ==
  \A i \in 1..(Len(samples) - 1) : samples[i].timestamp <= samples[i + 1].timestamp

\* the arrival rates the samples give in their arrangements sorted by timestamp
SortedRates(samples) ==
  {FracMeanOrNone(PairRates(Permuted(samples, f), 2)) :
     f \in {g \in Perms(Len(samples)) : IsSortedByTimestamp(Permuted(samples, g))}}

AggregatesAsStated ==
  /\ DOMAIN kpis.station_kpis = KpiStations(kpi_events)
  /\ \A st \in DOMAIN kpis.station_kpis :
       LET samples == SamplesAt(st)
           k == kpis.station_kpis[st]
       IN  /\ k.avg_queue_length = MeanOrNone(QueuesOf(samples))
           /\ k.peak_queue_length = MaxOrNone(QueuesOf(samples))
           /\ k.avg_wait_seconds = MeanOrNone(WaitsOf(samples))
           /\ k.peak_wait_seconds = MaxOrNone(WaitsOf(samples))
           /\ k.avg_arrival_rate_per_min \in SortedRates(samples)
  /\ KpiStations(kpi_events) = {} =>
       /\ kpis.avg_queue_length = NoneFrac /\ kpis.peak_queue_length = NoneFrac
       /\ kpis.avg_wait_seconds = NoneFrac /\ kpis.peak_wait_seconds = NoneFrac
       /\ kpis.avg_arrival_rate_per_min = NoneFrac

IsExampleScenario ==
  /\ Len(kpi_events) = 3
  /\ \A i \in 1..3 : StationKey(kpi_events[i]) = "SCC1"
  /\ {<<kpi_events[i].timestamp, kpi_events[i].data.customer_count>> : i \in 1..3}
       = {<<0, 4>>, <<1 * Minute, 7>>, <<2 * Minute, 9>>}

ExampleValues ==
  /\ kpis.avg_queue_length = Frac(20, 3)
  /\ kpis.peak_queue_length = Frac(9, 1)
  /\ kpis.avg_arrival_rate_per_min = Frac(5, 2)

OrderIndependent ==
  \A f \in Perms(Len(kpi_events)) : compute_kpis(Permuted(kpi_events, f)) = kpis

\* no two samples of one station carry the same timestamp
TimestampsDistinct ==
  \A i, j \in 1..Len(kpi_events) :
    (/\ i # j
     /\ IsKpiSample(kpi_events[i]) /\ IsKpiSample(kpi_events[j])
     /\ StationKey(kpi_events[i]) = StationKey(kpi_events[j]))
      => kpi_events[i].timestamp # kpi_events[j].timestamp

\* C29: per station the average and peak queue length and wait are the mean
\* and maximum of the samples, the arrival rate is the mean increase per
\* minute over consecutive timestamp-sorted pairs with a positive gap and a
\* positive increase (None without such a pair); the result is the same in
\* whatever order the events are supplied; without queue data every aggregate
\* is None and station_kpis is empty; counts 4, 7, 9 one minute apart give
\* 20/3, 9 and 2.5.
C29_ComputeKpis ==
  /\ AggregatesAsStated
  /\ IsExampleScenario => ExampleValues
  /\ OrderIndependent

\* C29 for events whose timestamps differ within each station
C29_DistinctTimestamps ==
  /\ AggregatesAsStated
  /\ IsExampleScenario => ExampleValues
  /\ TimestampsDistinct => OrderIndependent

C29_ExampleReached == IsExampleScenario /\ ExampleValues

\* ---------------------------------------------------------------- C30
\* the smallest distance between the POS timestamp and a match timestamp
SmallestDistance(e) ==
  CHOOSE d \in {Abs(e.pos_timestamp - t) : t \in e.match_times} :
    \A t \in e.match_times : d <= Abs(e.pos_timestamp - t)

\* max(0, 1 - d/W), times W; 0 without a match
AlignmentAsStated(e) ==
  IF e.match_times = {} THEN 0
  ELSE Max2(0, 30 * Sec - SmallestDistance(e))

\* min(1, 0.35 + 0.35*[rfid] + 0.22*[vision] + min(0.08, 0.1*alignment)),
\* times 100 W
ConfidenceAsStated(e) ==
  LET W == 30 * Sec
  IN  Min2(100 * W,
           35 * W + (IF e.has_rfid THEN 35 * W ELSE 0) + (IF e.has_vision THEN 22 * W ELSE 0)
             + Min2(8 * W, 10 * AlignmentAsStated(e)))

\* C30: every assessed POS event has time alignment max(0, 1 - d/W), d the
\* smallest distance to one of its RFID and vision matches (0 without a match),
\* and confidence min(1, 0.35 + 0.35 [RFID match] + 0.22 [vision match]
\* + min(0.08, 0.1 alignment)); without a match the confidence is 0.35 and no
\* correlation is emitted, with an RFID match the confidence is at least 0.70
\* and the POS key is correlated (by this assessment or an earlier one), and
\* with a vision match alone a correlation is emitted only when the alignment
\* is at least 0.3, in which case the POS key is correlated.
C30_ScoringFormula ==
  \A i \in 1..Len(lastEvals) :
    LET e == lastEvals[i]
        W == 30 * Sec
    IN  /\ e.alignment = AlignmentAsStated(e)
        /\ e.confidence = ConfidenceAsStated(e)
        /\ ~e.has_rfid /\ ~e.has_vision => e.confidence = 35 * W /\ e.correlation = <<>>
        /\ e.has_rfid => e.confidence >= 70 * W /\ e.key \in seen_correlations
        /\ ~e.has_rfid /\ e.has_vision =>
             /\ e.correlation # <<>> => 10 * e.alignment >= 3 * W
             /\ 10 * e.alignment >= 3 * W => e.key \in seen_correlations

\* a POS event matched by vision alone, 15 s away, was correlated, and another
\* assessment had both an RFID and a vision match at different distances
C30_Witness ==
  /\ \E i \in 1..Len(lastEvals) :
       /\ ~lastEvals[i].has_rfid /\ lastEvals[i].has_vision
       /\ lastEvals[i].alignment = 15 * Sec
       /\ lastEvals[i].correlation # <<>>
  /\ corrCalls >= 2

\* ---------------------------------------------------------------- C31
\* the customer counts of the most recent 12 samples of the history (of all
\* of them when the history holds fewer)
RecentCounts(hist) ==
  LET from == Max2(1, Len(hist) - Min2(history_length, 12) + 1)
  IN  [i \in 1..(Len(hist) - from + 1) |-> hist[from + i - 1].customer_count]

\* trend > pct / 100, trend = (last - first) / first, 1.0 when only first is 0
TrendAbove(counts, pct) ==
  LET first == counts[1]
      last == counts[Len(counts)]
  IN  /\ Len(counts) >= 2
      /\ ~(first = 0 /\ last = 0)
      /\ IF first = 0 THEN 100 > pct ELSE (last - first) * 100 > pct * first

TrendBelow(counts, pct) ==
  LET first == counts[1]
      last == counts[Len(counts)]
  IN  IF Len(counts) < 2 \/ (first = 0 /\ last = 0) THEN 0 < pct
      ELSE IF first = 0 THEN 100 < pct
      ELSE (last - first) * 100 < pct * first

RECURSIVE SumSquaredDeviations(_, _, _)
\* the sum of (n * c - total)^2 over the counts: n^3 times the variance
SumSquaredDeviations(counts, n, total) ==
  IF counts = <<>> THEN 0
  ELSE (n * counts[1] - total) * (n * counts[1] - total)
       + SumSquaredDeviations(Tail(counts), n, total)

\* coefficient of variation > 1/2: variance / mean^2 > 1/4
VolatilityAboveHalf(counts) ==
  LET n == Len(counts)
      total == SumOf(counts)
  IN  /\ n >= 3
      /\ total # 0
      /\ 4 * SumSquaredDeviations(counts, n, total) > n * total * total

\* the penalties of the stated formula that apply to a history, with the alert
\* each one raises ("" for none)
PenaltiesAsStated(hist, target) ==
  LET latest == hist[Len(hist)]
      counts == RecentCounts(hist)
  IN  (IF latest.average_dwell_time >= 480 THEN <<[points |-> 45, alert |-> "dwell_time_critical"]>>
       ELSE IF latest.average_dwell_time >= 240
       THEN <<[points |-> 25, alert |-> "dwell_time_warning"]>> ELSE <<>>)
      \o (IF latest.customer_count >= 2 * target
          THEN <<[points |-> 30, alert |-> "queue_congestion"]>>
          ELSE IF latest.customer_count >= target + 2
          THEN <<[points |-> 18, alert |-> "queue_building"]>> ELSE <<>>)
      \o (IF latest.customer_count > 0 /\ latest.service_rate < 100
          THEN <<[points |-> 12, alert |-> "service_rate_low"]>> ELSE <<>>)
      \o (IF TrendAbove(counts, 35) THEN <<[points |-> 8, alert |-> "queue_growth"]>> ELSE <<>>)
      \o (IF TrendBelow(counts, 0 - 40) THEN <<[points |-> 0 - 3, alert |-> ""]>> ELSE <<>>)
      \o (IF VolatilityAboveHalf(counts) THEN <<[points |-> 4, alert |-> ""]>> ELSE <<>>)

PenaltyPoints(penalties) == SumOf([i \in 1..Len(penalties) |-> penalties[i].points])

PenaltyAlerts(penalties) ==
  LET raised == SelectSeqIdx(penalties, {i \in 1..Len(penalties) : penalties[i].alert # ""})
  IN  [i \in 1..Len(raised) |-> raised[i].alert]

C31_ShrinkingReached ==
  LET hist == history[lastHealth.station_id]
  IN  hist # <<>> /\ TrendBelow(RecentCounts(hist), 0 - 40) /\ Len(hist) >= 2

\* ---------------------------------------------------------------- C32
\* the snapshot the ingest of this step stored, and the one stored before it
StoredSnapshot == history'[lastIngest'[1].station_id][Len(history'[lastIngest'[1].station_id])]

PreviousSnapshots == history[lastIngest'[1].station_id]

\* C32: the snapshot an ingest stores has delta_customers = its count minus the
\* count of the station's previous snapshot (0 without one); when the payload
\* has no service_rate the stored rate is max(previous count - count, 0) * 60
\* / max(elapsed seconds, 1) (0 without a previous snapshot), in hundredths
\* rounded down; a supplied service_rate is stored as given.
C32_SnapshotDerivation ==
  [][IsIngestStep /\ lastIngest' # <<>> =>
       LET payload == lastIngest'[1].payload
           snap == StoredSnapshot
           prev == PreviousSnapshots
       IN  /\ snap.customer_count = OrZero(payload.customer_count)
           /\ snap.delta_customers =
                IF prev = <<>> THEN 0
                ELSE snap.customer_count - prev[Len(prev)].customer_count
           /\ snap.service_rate =
                IF payload.service_rate # NoNumber THEN payload.service_rate
                ELSE IF prev = <<>> THEN 0
                ELSE (Max2(prev[Len(prev)].customer_count - snap.customer_count, 0) * 60 * 100 * Sec)
                       \div Max2(snap.timestamp - prev[Len(prev)].timestamp, 1 * Sec)]_vars

\* a snapshot with a derived, positive service rate and a negative delta, and
\* before it in the log one with a supplied rate
C32_Witness ==
  /\ lastIngest # <<>>
  /\ lastIngest[1].payload.service_rate = NoNumber
  /\ LET log == snapshotLog[lastIngest[1].station_id]
     IN  /\ Len(log) >= 2
         /\ log[Len(log)].service_rate > 0
         /\ log[Len(log)].delta_customers < 0
         /\ log[1].service_rate = 320

\* ---------------------------------------------------------------- C33
\* the step appended an extreme_wait incident of priority critical
ExtremeWaitAppended ==
  \E i \in (Len(incidentLog) + 1)..Len(incidentLog') :
    /\ incidentLog'[i].type = "extreme_wait"
    /\ incidentLog'[i].priority = "critical"
    /\ incidentLog'[i].station_id = lastIngest'[1].station_id

DwellCritical ==
  StoredSnapshot.average_dwell_time
    >= Thresholds(target_customers_per_station).dwell_critical

\* C33: an ingest appends an extreme_wait incident of priority critical exactly
\* when the average dwell time of the observation is at least the critical
\* threshold of 480 s, the first observation of a station included.
C33_ExtremeWait ==
  [][IsIngestStep /\ lastIngest' # <<>> =>
       /\ DwellCritical => ExtremeWaitAppended
       /\ ~DwellCritical => "extreme_wait" \notin NewIncidentTypes]_vars

\* the same for every observation but the first one of its station
C33_ExtremeWaitAfterFirst ==
  [][IsIngestStep /\ lastIngest' # <<>> /\ PreviousSnapshots # <<>> =>
       /\ DwellCritical => ExtremeWaitAppended
       /\ ~DwellCritical => "extreme_wait" \notin NewIncidentTypes]_vars

\* a later observation with a critical dwell has appended its incident
C33_LaterReached ==
  /\ lastIngest # <<>>
  /\ Len(snapshotLog[lastIngest[1].station_id]) >= 2
  /\ incidentLog # <<>>
  /\ incidentLog[Len(incidentLog)].type = "extreme_wait"

\* ---------------------------------------------------------------- C34
\* the retained history of the station after the ingest of this step
RetainedHistory == history'[lastIngest'[1].station_id]

\* snapshots j..Len(hist) are the trailing run of equal customer counts
IsTrailingRun(hist, j) ==
  /\ \A k \in j..Len(hist) : hist[k].customer_count = hist[Len(hist)].customer_count
  /\ j > 1 => hist[j - 1].customer_count # hist[Len(hist)].customer_count

StalledAsStated(hist, target) ==
  /\ hist[Len(hist)].customer_count >= target + 2
  /\ \E j \in 1..Len(hist) :
       /\ IsTrailingRun(hist, j)
       /\ hist[Len(hist)].timestamp - hist[j].timestamp >= 2 * Minute

\* C34: an ingest appends a stalled_checkout incident exactly when the newest
\* count is at least target + 2 and the trailing run of equal counts in the
\* retained history spans at least two minutes; nothing suppresses a repeat.
C34_StalledCheckout ==
  [][IsIngestStep /\ lastIngest' # <<>> =>
       ("stalled_checkout" \in NewIncidentTypes
          <=> StalledAsStated(RetainedHistory, target_customers_per_station))]_vars

\* two stalled_checkout incidents in a row for one station whose count did not
\* change in between
C34_Witness ==
  /\ lastIngest # <<>>
  /\ Len(incidentLog) >= 2
  /\ \E i \in 1..(Len(incidentLog) - 1) : \E j \in (i + 1)..Len(incidentLog) :
       /\ incidentLog[i].type = "stalled_checkout"
       /\ incidentLog[j].type = "stalled_checkout"
       /\ incidentLog[i].station_id = lastIngest[1].station_id
       /\ incidentLog[j].station_id = lastIngest[1].station_id
  /\ LET hist == history[lastIngest[1].station_id]
     IN  /\ Len(hist) >= 3
         /\ \A k \in 1..Len(hist) : hist[k].customer_count = hist[Len(hist)].customer_count

\* ---------------------------------------------------------------- C35
InventoryAlertFor(alerts, sku) ==
  \E i \in 1..Len(alerts) :
    alerts[i].type = "inventory_discrepancy" /\ alerts[i].evidence.sku = sku

\* no alert for the SKU in the ten minutes before now
OutsideInventoryCooldown(sku, now) ==
  ~DictHas(inv_last_alert, sku) \/ now - inv_last_alert[sku] >= INVENTORY_COOLDOWN

\* the entries of the snapshot of this step, each emitting iff qualifies(O, E)
InventoryEntriesJudged(qualifies(_, _)) ==
  LET e == lastEvent'
      entries == e.data.quantities
  IN  \A i \in 1..Len(entries) :
        LET sku == entries[i][1]
            O == entries[i][2]
        IN  IF sku \notin DOMAIN Catalog \/ O = NoNumber
            THEN ~InventoryAlertFor(lastAlerts', sku)
            ELSE OutsideInventoryCooldown(sku, e.timestamp) =>
                   (InventoryAlertFor(lastAlerts', sku) <=> qualifies(O, Catalog[sku].quantity))

\* |O - E| >= max(8, 12% of E), the 12% exact
QualifiesExact(O, E) ==
  100 * Abs(O - E) >= Max2(100 * 8, 12 * E)

\* |O - E| >= max(8, 12% of E rounded down to a whole number)
QualifiesTruncated(O, E) ==
  Abs(O - E) >= Max2(8, (12 * E) \div 100)

\* C35: outside the cooldown a snapshot entry with known expected quantity E
\* and integer observed quantity O emits an inventory_discrepancy alert exactly
\* when |O - E| >= max(8, 12% of E), the 12% not truncated; each SKU of a
\* snapshot is judged on its own and SKUs without expected quantity are skipped.
C35_InventoryThreshold ==
  [][IsProcessStep => InventoryEntriesJudged(QualifiesExact)]_vars

\* the same with the 12% rounded down to a whole number
C35_TruncatedThreshold ==
  [][IsProcessStep => InventoryEntriesJudged(QualifiesTruncated)]_vars

\* one snapshot has raised an alert for each of its two SKUs
C35_BothSkusReached ==
  /\ InventoryAlertFor(lastAlerts, "PRD_F_01")
  /\ InventoryAlertFor(lastAlerts, "PRD_T_04")

\* ---------------------------------------------------------------- C36
\* no system_error alert of the event's (dataset, station) key in the three
\* minutes before the event
OutsideSystemCooldown(e) ==
  LET key == <<e.dataset, e.station_id>>
  IN  \/ ~DictHas(health_state, key)
      \/ health_state[key].last_alert = NoNumber
      \/ e.timestamp - health_state[key].last_alert >= SYSTEM_COOLDOWN

\* the system_error alerts of this step, each of confidence 0.85
SystemAlertEmitted ==
  /\ Len(SystemAlerts(lastAlerts')) = 1
  /\ SystemAlerts(lastAlerts')[1].confidence = <<85, 100>>

\* the event carries one of the explicit error codes, whatever its value
CarriesErrorCode(e) == e.data.error_code # None

HasErrorKeywordStatus(e) ==
  \/ e.status \in StatusesWithErrorKeyword
  \/ (e.status = None /\ e.data.status \in StatusesWithErrorKeyword)

\* C36: outside the cooldown an event returns a system_error alert of
\* confidence 0.85 exactly when its status holds an error keyword or it
\* carries an error code other than ok; a benign status with an ok error code
\* returns no alert.
C36_SystemHealthTrigger ==
  [][IsProcessStep /\ OutsideSystemCooldown(lastEvent') =>
       /\ ReportsError(lastEvent') => SystemAlertEmitted
       /\ ~ReportsError(lastEvent') => SystemAlerts(lastAlerts') = <<>>]_vars

\* the same with every error code, ok included, counted as an error
C36_AnyErrorCodeTriggers ==
  [][IsProcessStep /\ OutsideSystemCooldown(lastEvent') =>
       LET reports == HasErrorKeywordStatus(lastEvent') \/ CarriesErrorCode(lastEvent')
       IN  /\ reports => SystemAlertEmitted
           /\ ~reports => SystemAlerts(lastAlerts') = <<>>]_vars

\* an error code without any status has raised an alert
C36_ErrorCodeReached ==
  /\ detCalls > 0
  /\ lastEvent.status = None
  /\ lastEvent.data.error_code = "E42"
  /\ Len(SystemAlerts(lastAlerts)) = 1

\* ---------------------------------------------------------------- C37
\* a confidence <<num, den>> within [0, 1]
InUnitInterval(confidence) ==
  0 <= confidence[1] /\ confidence[1] <= confidence[2] /\ confidence[2] > 0

\* a confidence <<num, den>> equal to so many hundredths
IsHundredths(confidence, hundredths) ==
  confidence[1] * 100 = hundredths * confidence[2]

\* every barcode_switching alert of this step carries f(accuracy of the
\* prediction cached for the station), and every alert lies in [0, 1]
ConfidencesJudged(f(_)) ==
  /\ \A i \in 1..Len(lastAlerts') :
       lastAlerts'[i].type = "barcode_switching" =>
         /\ DictHas(latest_predictions, lastAlerts'[i].station_id)
         /\ IsHundredths(lastAlerts'[i].confidence,
                         f(latest_predictions[lastAlerts'[i].station_id].accuracy))
  /\ \A i \in 1..Len(lastAlerts') : InUnitInterval(lastAlerts'[i].confidence)

AccuracyItself(accuracy) == accuracy

AccuracyCapped(accuracy) == Min2(99, accuracy)

\* C37: a barcode_switching alert carries the accuracy of the cached
\* prediction that triggered it as its confidence, for every cached accuracy
\* from 0.65 to 1.0, and the confidence of every alert lies in [0, 1].
C37_VisionConfidence ==
  [][IsProcessStep => ConfidencesJudged(AccuracyItself)]_vars

\* the same with the accuracy capped at 0.99
C37_CappedConfidence ==
  [][IsProcessStep => ConfidencesJudged(AccuracyCapped)]_vars

\* an alert whose confidence is the cached accuracy of 0.87
C37_TypicalReached ==
  \E i \in 1..Len(lastAlerts) :
    /\ lastAlerts[i].type = "barcode_switching"
    /\ lastAlerts[i].confidence = <<87, 100>>

C37_ExtendedWaitReached ==
  \E i \in 1..Len(alertLog) : alertLog[i].type = "extended_wait"

\* ---------------------------------------------------------------- C38
\* every scanner_avoidance alert returned so far has confidence 0.9 at the
\* locations of high and 0.75 at every other location
ScannerConfidences(high) ==
  \A i \in 1..Len(alertLog) :
    alertLog[i].type = "scanner_avoidance" =>
      alertLog[i].confidence =
        IF alertLog[i].evidence.location \in high THEN <<90, 100>> ELSE <<75, 100>>

\* C38: a scanner_avoidance alert has confidence 0.9 when the RFID read was at
\* EXIT_GATE, EXIT_LANE, CUSTOMER_EXIT or OUT_OF_STORE and 0.75 at
\* BAGGING_AREA_BREACH or UNKNOWN.
C38_ScannerConfidence ==
  ScannerConfidences({"EXIT_GATE", "EXIT_LANE", "CUSTOMER_EXIT", "OUT_OF_STORE"})

\* the same with 0.9 at CUSTOMER_EXIT and OUT_OF_STORE only
C38_ExitGateAtLowConfidence ==
  ScannerConfidences({"CUSTOMER_EXIT", "OUT_OF_STORE"})

\* the example: a first read at OUT_OF_STORE, no POS scan of its SKU before,
\* returns one alert of confidence 0.9
C38_Example ==
  (/\ detCalls = 1
   /\ lastEvent.dataset \in RFID_DATASETS
   /\ lastEvent.data.location = "OUT_OF_STORE")
    => /\ Len(lastAlerts) = 1
       /\ lastAlerts[1].type = "scanner_avoidance"
       /\ lastAlerts[1].confidence = <<90, 100>>

C38_ExampleReached ==
  /\ detCalls = 1
  /\ lastEvent.dataset \in RFID_DATASETS
  /\ lastEvent.data.location = "OUT_OF_STORE"
  /\ Len(lastAlerts) = 1

\* ---------------------------------------------------------------- C39
\* every observation counted as a match in the assessment lies within the
\* window of the assessed POS event and resolves to its SKU
MatchesJoinable(e) ==
  /\ \A t \in e.match_times : Abs(t - e.pos_timestamp) <= window
  /\ e.rfid_match_skus \subseteq {e.sku}

\* C39: an RFID or vision observation counted as a match for a POS event has
\* the station and SKU of the POS event and a timestamp within W seconds of the
\* POS timestamp, in whatever order the timestamps arrive.
C39_Joinability ==
  \A i \in 1..Len(lastEvals) : MatchesJoinable(lastEvals[i])

\* the events arrived with timestamps that never decrease
ArrivedInOrder ==
  \A i \in 1..Len(events) : \A j \in i..Len(events) :
    events[i].timestamp <= events[j].timestamp

\* the same when the retained events arrived in timestamp order
C39_JoinabilityInOrder ==
  ArrivedInOrder => \A i \in 1..Len(lastEvals) : MatchesJoinable(lastEvals[i])

\* a match 25 s away from its POS event, the events in order
C39_InOrderReached ==
  /\ ArrivedInOrder
  /\ \E i \in 1..Len(lastEvals) :
       \E t \in lastEvals[i].match_times : Abs(t - lastEvals[i].pos_timestamp) = 25 * Sec

\* ---------------------------------------------------------------- C40
\* every connection made so far delivered nothing
NothingDelivered == connLog # <<>> /\ received = <<>> /\ yielded = <<>>

\* C40: with reconnect enabled, the connection attempts in a row that deliver
\* no message number at most the retry budget plus the first attempt, and a
\* backoff delay precedes every reconnect, also when the peer accepts and
\* closes cleanly without sending data.
C40_ReconnectBudget ==
  (rs_args.reconnect /\ NothingDelivered) =>
    /\ Len(connLog) <= rs_args.max_retries + 1
    /\ Len(sleeps) >= Len(connLog) - 1

\* without reconnect one connection is made and a clean close returns
C40_NoReconnect ==
  (rs_pc # "idle" /\ ~rs_args.reconnect) =>
    /\ Len(connLog) <= 1
    /\ sleeps = <<>>

\* a clean close without reconnect has returned
C40_ReturnedReached ==
  /\ ~rs_args.reconnect
  /\ rs_pc = "returned"
  /\ connLog = <<"accepted">>
  /\ received = <<>>

====
